---------------------------- MODULE Spec2Model ----------------------------
(***************************************************************************)
(* Verse audio acquisition and merge pipeline of al-forqan:                *)
(*   QuranDataManager        (backend/quran_data/quran_data_manager.py)    *)
(*   QuranAudioDownloader    (backend/utils/every_ayah_downloader.py)      *)
(*   AudioProcessor          (backend/quran_data/audio_processor.py)       *)
(*                                                                         *)
(* Time is counted in whole seconds (the unit of request_interval).        *)
(* Thread 0 is the caller of get_verses_info; thread a (a >= 1) is the     *)
(* pool task that processes ayah a.                                        *)
(***************************************************************************)
EXTENDS Integers, Sequences, FiniteSets, TLC

(* ------------------------------ bounds -------------------------------- *)
\* largest ayah number a request may name
MaxAyah == 4
\* largest number of ayahs in one request (tasks running concurrently)
MaxTasks == 3
\* the clock may always advance up to StartTime + MaxElapsed
MaxElapsed == 1

(* ------------------------- program constants -------------------------- *)
\* every_ayah_downloader.py:115  self.request_interval = 1.0
request_interval == 1
\* alforqan.constant.MAX_SURAH: the number of surahs
MAX_SURAH == 114
\* every_ayah_downloader.py:121  Retry(total=3, ...)
RetryTotal == 3
\* every_ayah_downloader.py:121  status_forcelist=[500, 502, 503, 504]
status_forcelist == {500, 502, 503, 504}

\* The remote manifest (recitations.js): per-surah ayah counts, 114 entries,
\* and the reciters it lists (id -> subfolder).
ayahCount ==
  << 7, 286, 200, 176, 120, 165, 206, 75, 129, 109, 123, 111, 43, 52, 99,
     128, 111, 110, 98, 135, 112, 78, 118, 64, 77, 227, 93, 88, 69, 60, 34,
     30, 73, 54, 45, 83, 182, 88, 75, 85, 54, 53, 89, 59, 37, 35, 38, 29,
     18, 45, 60, 49, 62, 55, 78, 96, 29, 22, 24, 13, 14, 11, 11, 18, 12,
     12, 30, 52, 52, 44, 28, 28, 20, 56, 40, 31, 50, 40, 46, 42, 29, 19,
     36, 25, 22, 17, 19, 26, 30, 20, 15, 21, 11, 8, 8, 19, 5, 8, 8, 11,
     11, 8, 3, 9, 5, 4, 7, 3, 6, 3, 5, 4, 5, 6 >>

reciter_configs == [r \in {6} |-> "Abdullah_Basfar_192kbps"]

(* ------------------------------ inputs -------------------------------- *)
SurahInputs == {0, 108, 115}
ReciterInputs == {6, 0}
AyahInputs == 1 .. MaxAyah
Main == 0
Tasks == 1 .. MaxAyah
Threads == {Main} \cup Tasks
NoFile == [src |-> "absent", surah |-> 0, ayah |-> 0]
NoOutput == [written |-> FALSE, frames |-> 0]
\* callers of the downloader's methods
MaxCallers == 2
\* calls made on the downloader in one run
MaxCalls == 3
Callers == 1 .. MaxCallers
NoCall == [todo |-> << >>, at |-> "idle"]
NoPath == [dir |-> 0, name |-> "none", source |-> << >>]
NoSessionResult == [kind |-> "none", final_durations |-> << >>]
NoAudio == [is_file |-> FALSE, mutagen |-> [kind |-> "None", length |-> 0],
            wave |-> [kind |-> "raises", frames |-> 0, rate |-> 0]]
NoDuration == [outcome |-> "none", num |-> 0, den |-> 1, readers |-> << >>]
NoText == [hh |-> << >>, mm |-> << >>, ss |-> << >>]

VARIABLES
  pc,                     \* position of every thread
  wake,                   \* time.sleep deadline of a thread in _apply_rate_limit
  req,                    \* arguments of get_verses_info
  err,                    \* exception that left get_verses_info, or "none"
  recitations_cache,      \* QuranAudioDownloader._recitations_cache
  last_request_timestamp, \* QuranAudioDownloader._last_request_timestamp
  now,                    \* time.time()
  dispatches,             \* session.get calls made so far: <<time, url>>
  disk,                   \* files of the audio directory: path -> content
  disk0,                  \* the files as they were when the call started
  existed,                \* per task: outcome of audio_filepath.exists()
  ret,                    \* per task: value of its future
  verses_data,            \* results appended by the as_completed loop
  result,                 \* value returned by get_verses_info
  log                     \* logger.exception / logger.error records

coordVars == << pc, wake, req, err, recitations_cache, last_request_timestamp,
                now, dispatches, disk, disk0, existed, ret, verses_data,
                result, log >>

VARIABLES
  fetch_script,           \* the server's answers to the attempts of one session.get
  fetched                 \* outcome of that session.get

fetchVars == << fetch_script, fetched >>

VARIABLES
  v_surah,                \* surah_num passed to _validate_surah_ayah
  v_ayah,                 \* ayah_num passed to _validate_surah_ayah
  v_result                \* how the call ended

validateVars == << v_surah, v_ayah, v_result >>

VARIABLES
  file_paths,             \* merge_audio_files: the clips, each a frame count
  frame_rate,             \* frame rate shared by the clips
  crossfade,              \* merge_audio_files: crossfade in ms
  m_pc,                   \* position inside merge_audio_files
  m_i,                    \* number of the clip the loop is at
  merged,                 \* the accumulator segment (its frame count)
  duration_changes,       \* the records appended so far
  total_duration_ms,
  cumulative_crossfade,
  m_result,               \* the returned dictionary
  output_file             \* the file at output_path: whether written, and its frames

mergeVars == << file_paths, frame_rate, crossfade, m_pc, m_i, merged,
                duration_changes, total_duration_ms, cumulative_crossfade, m_result,
                output_file >>

VARIABLES
  callers,                \* per caller of the downloader: the call it is in
  reciters,               \* QuranAudioDownloader._reciters
  calls_made              \* calls started on the downloader so far

manifestVars == << callers, reciters, calls_made >>

VARIABLES
  ctor_args,              \* arguments of AudioProcessor.__init__
  ctor_result             \* how the construction ended

ctorVars == << ctor_args, ctor_result >>

VARIABLES
  verse_info,             \* process_audio_files: the coordinator's result
  s_pc,                   \* position inside process_audio_files
  s_i,                    \* number of the file the loop is at
  normalized_audio,       \* the path returned by normalize_audio
  durations,              \* process_audio_files: durations
  processed_files,        \* process_audio_files: processed_files
  temp_dirs,              \* directories made by tempfile.mkdtemp, in order
  s_result                \* what process_audio_files returned

sessionVars == << verse_info, s_pc, s_i, normalized_audio, durations,
                  processed_files, temp_dirs, s_result >>

VARIABLES
  dur_file,               \* get_duration: what the readers find at file_path
  dur_result,             \* get_duration: how the call ended
  fmt_seconds,            \* format_duration: the argument, in tenths of a second
  fmt_result              \* format_duration: the returned text

durationVars == << dur_file, dur_result, fmt_seconds, fmt_result >>

VARIABLES
  future_to_ayah          \* _process_verses_concurrently: ayah of each future,
                          \* in submission order

poolVars == << future_to_ayah >>

\* output_path=None
NoTarget == [dir |-> 0, name |-> "None"]
NoNormalizeCall ==
  [at |-> "idle", input_path |-> << >>, output_path |-> NoTarget,
   resolved |-> NoTarget, frames |-> 0, returned |-> NoTarget]

VARIABLES
  normalize_calls,        \* per thread: its normalize_audio call on the one processor
  normalize_dirs          \* the processor's temp_dir and the callers' directory

normalizeVars == << normalize_calls, normalize_dirs >>

\* get_verses_info calls that run against one audio directory
MaxBatches == 2
Batches == 1 .. MaxBatches
NoBatch == [at |-> "idle", after |-> {}]
NoTask == [at |-> "unsched", existed |-> "unknown", fetched |-> "none", wrote |-> FALSE]
NoRequest == [reciter_id |-> 0, surah_number |-> 0, start_ayah |-> 0, end_ayah |-> 0]

VARIABLES
  batch_req,              \* the arguments every batch passes to get_verses_info
  batches,                \* per batch: where its get_verses_info call is
  batch_tasks,            \* per batch and ayah: the _process_single_verse task
  audio_dir               \* the shared audio directory: path -> content

overlapVars == << batch_req, batches, batch_tasks, audio_dir >>

NoId == [sha256 |-> << >>]
NoAdd == [called |-> FALSE, id |-> NoId, output_filename |-> "none",
          was_queued |-> FALSE, returned |-> FALSE, changed |-> FALSE]
NoRun == [at |-> "idle", pending_verses |-> {}, outcome |-> << >>]

VARIABLES
  verse_queue,            \* st.session_state.verse_queue: id -> verse range
  processing_queue,       \* st.session_state.processing_queue: set of ids
  last_add,               \* the last add_verse_range call and what it did
  run                     \* the processing loop of the current script run

queueVars == << verse_queue, processing_queue, last_add, run >>

ext2OtherVars == << normalizeVars, overlapVars, queueVars >>

ext2Vars == << poolVars, ext2OtherVars >>

extVars == << manifestVars, ctorVars, sessionVars, durationVars, ext2Vars >>

(* ------------------------- pure helpers ------------------------------- *)
RECURSIVE Digits(_)
Digits(n) == IF n < 10 THEN << n >> ELSE Digits(n \div 10) \o << n % 10 >>

RECURSIVE ZeroPad(_, _)
ZeroPad(ds, width) == IF Len(ds) >= width THEN ds ELSE ZeroPad(<< 0 >> \o ds, width)

\* f"{n:03d}"
Format03d(n) == ZeroPad(Digits(n), 3)

\* f"{surah_number:03d}{ayah_number:03d}.mp3"
audio_filename(surah, ayah) == Format03d(surah) \o Format03d(ayah) \o << "mp3" >>

\* reciter_audio_dir / audio_filename    (quran_data_manager.py:73,111)
audio_filepath(subfolder, surah, ayah) == << subfolder >> \o audio_filename(surah, ayah)

file_path_unpadded(output_dir, surah, ayah) == << output_dir >> \o Digits(surah) \o Digits(ayah) \o << "mp3" >>

\* output_path / file_name               (every_ayah_downloader.py:210-211)
file_path(output_dir, surah, ayah) == << output_dir >> \o Format03d(surah) \o Format03d(ayah) \o << "mp3" >>

\* urljoin(BASE_URL, f"{subfolder}/{file_name}")
download_url(subfolder, surah, ayah) == << "data", subfolder >> \o Format03d(surah) \o Format03d(ayah) \o << "mp3" >>

RECITATIONS_URL == << "data", "recitations.js" >>

Paths == { audio_filepath(reciter_configs[r], s, a) :
             r \in DOMAIN reciter_configs, s \in SurahInputs \cap (1 .. 114), a \in AyahInputs }


(* --------------- HTTP session: requests + urllib3 Retry --------------- *)
\* One server answer to one attempt: a status and whether it carries a
\* Retry-After header.
Response(status, retry_after) == [status |-> status, retry_after |-> retry_after]

\* urllib3 Retry.RETRY_AFTER_STATUS_CODES, honoured because the session's
\* Retry(...) leaves respect_retry_after_header at its default (True)
RETRY_AFTER_STATUS_CODES == {413, 429, 503}

\* what is_retry would be if every error status were retried
is_retry_any_error(resp, total) == resp.status >= 400

\* Retry.is_retry for a GET with the strategy of _create_session
is_retry(resp, total) ==
  \/ resp.status \in status_forcelist
  \/ total # 0 /\ resp.retry_after /\ resp.status \in RETRY_AFTER_STATUS_CODES

\* what is_exhausted would be with one retry too many
is_exhausted_late(total) == total < -1

\* Retry.is_exhausted: the budget left after an increment is below zero
is_exhausted(total) == total < 0

\* HTTPAdapter.send / urlopen with max_retries=retry_strategy: attempt number i
\* is answered by script[i]; every retry decrements Retry.total, and an
\* exhausted budget raises MaxRetryError (requests: RetryError).
RECURSIVE urlopen(_, _, _, _)
urlopen(script, i, total, retried) ==
  IF is_retry(script[i], total)
  THEN IF is_exhausted(total - 1)
       THEN [outcome |-> "RetryError", status |-> script[i].status,
             attempts |-> i, retried |-> retried]
       ELSE urlopen(script, i + 1, total - 1, Append(retried, script[i]))
  ELSE [outcome |-> "response", status |-> script[i].status,
        attempts |-> i, retried |-> retried]

\* response = self.session.get(url); response.raise_for_status()
session_get(script) ==
  LET r == urlopen(script, 1, RetryTotal, << >>)
  IN  IF r.outcome = "response" /\ r.status >= 400
      THEN [r EXCEPT !.outcome = "HTTPError"]
      ELSE r

\* what the server may answer to one GET in the coordinator model
ServerScripts ==
  { [i \in 1 .. RetryTotal + 1 |-> Response(200, FALSE)],
    [i \in 1 .. RetryTotal + 1 |-> Response(404, FALSE)],
    [i \in 1 .. RetryTotal + 1 |-> Response(503, FALSE)],
    [i \in 1 .. RetryTotal + 1 |-> IF i <= 2 THEN Response(503, FALSE) ELSE Response(200, FALSE)] }

(* ---------------------- QuranAudioDownloader -------------------------- *)
\* _validate_surah_ayah with the last ayah of every surah rejected
validate_surah_ayah_strict(surah_num, ayah_num) ==
  IF ~(1 <= surah_num /\ surah_num <= 114)
  THEN "ValueError"
  ELSE LET max_ayah == ayahCount[(surah_num - 1) + 1]
       IN  IF ~(1 <= ayah_num /\ ayah_num < max_ayah) THEN "ValueError" ELSE "ok"

\* QuranAudioDownloader._validate_surah_ayah with the manifest loaded:
\* ayah_counts is a 0-based list, so ayah_counts[k] is ayahCount[k + 1]
validate_surah_ayah(surah_num, ayah_num) ==
  IF ~(1 <= surah_num /\ surah_num <= 114)
  THEN "ValueError"
  ELSE LET max_ayah == ayahCount[(surah_num - 1) + 1]
       IN  IF ~(1 <= ayah_num /\ ayah_num <= max_ayah) THEN "ValueError" ELSE "ok"

\* get_reciter_config accepting every id
get_reciter_config_any(reciter_id) == "ok"

\* QuranAudioDownloader.get_reciter_config with the manifest loaded
get_reciter_config(reciter_id) ==
  IF reciter_id \in DOMAIN reciter_configs THEN "ok" ELSE "ValueError"

\* the URL a thread fetches after _apply_rate_limit
UrlOf(t) ==
  IF t = Main THEN RECITATIONS_URL
  ELSE download_url(reciter_configs[req.reciter_id], req.surah_number, t)

SetPc(t, v) == pc' = [pc EXCEPT ![t] = v]

\* _apply_rate_limit, lines 129-132: read the clock and the shared timestamp,
\* then sleep for the remainder of the interval
ApplyRateLimitRead(t) ==
  /\ pc[t] = "rl_read"
  /\ LET current_time == now
         time_elapsed == current_time - last_request_timestamp
     IN  wake' = [wake EXCEPT ![t] =
                    IF time_elapsed < request_interval
                    THEN current_time + (request_interval - time_elapsed)
                    ELSE current_time]
  /\ SetPc(t, "rl_sleep")
  /\ UNCHANGED << req, err, recitations_cache, last_request_timestamp, now,
                  dispatches, disk, disk0, existed, ret, verses_data, result, log,
                  fetchVars, validateVars, mergeVars, extVars >>

\* _apply_rate_limit, line 133, and the session.get that follows it
\* (lines 139 / 217): the thread wakes no earlier than its deadline, stamps
\* the shared timestamp and dispatches the request
ApplyRateLimitStamp(t) ==
  /\ pc[t] = "rl_sleep"
  /\ now >= wake[t]
  /\ last_request_timestamp' = now
  /\ dispatches' = Append(dispatches, << now, UrlOf(t) >>)
  /\ wake' = [wake EXCEPT ![t] = 0]
  /\ SetPc(t, "inflight")
  /\ UNCHANGED << req, err, recitations_cache, now, disk, disk0, existed,
                  ret, verses_data, result, log,
                  fetchVars, validateVars, mergeVars, extVars >>

\* the wall clock, followed for as long as some thread may still read it: it
\* may always reach StartTime + MaxElapsed, and always the deadline of a
\* sleeping thread
Tick ==
  /\ \E t \in Threads : pc[t] \in {"idle", "rl_read", "rl_sleep", "resolve", "start"}
  /\ \/ now < request_interval + MaxElapsed
     \/ \E t \in Threads : pc[t] = "rl_sleep" /\ wake[t] > now
  /\ now' = now + 1
  /\ UNCHANGED << pc, wake, req, err, recitations_cache, last_request_timestamp,
                  dispatches, disk, disk0, existed, ret, verses_data, result, log,
                  fetchVars, validateVars, mergeVars, extVars >>


(* -------------------------- QuranDataManager -------------------------- *)
Pending == [kind |-> "pending", aya_no |-> 0, audio_path |-> << >>, duration |-> NoFile]
None == [kind |-> "None", aya_no |-> 0, audio_path |-> << >>, duration |-> NoFile]
Raised == [kind |-> "raised", aya_no |-> 0, audio_path |-> << >>, duration |-> NoFile]

except_reraise == Raised

\* the except clauses of _process_single_verse (lines 116-118, 124-126):
\* the exception is logged and the task returns None
except_return == None

\* QuranDataManager._validate_verse_range
validate_verse_range(surah_number, start_ayah, end_ayah) ==
  IF ~(1 <= surah_number /\ surah_number <= MAX_SURAH) THEN "ValueError"
  ELSE IF start_ayah > end_ayah THEN "ValueError"
  ELSE "ok"

\* range(start_ayah, end_ayah + 1)
AyahRange == req.start_ayah .. req.end_ayah

\* a write that leaves a file that is already there alone
write_bytes_exclusive(d, p, content) ==
  IF p \in DOMAIN d /\ d[p].src # "absent" THEN d
  ELSE [q \in DOMAIN d \cup {p} |-> IF q = p THEN content ELSE d[q]]

\* pathlib write_bytes
write_bytes(d, p, content) == [q \in DOMAIN d \cup {p} |-> IF q = p THEN content ELSE d[q]]

\* Path.exists / Path.is_file
exists(d, p) == p \in DOMAIN d /\ d[p] # NoFile

\* list.sort(key=lambda x: x["verse_info"]["aya_no"]): stable insertion
RECURSIVE insert_by_ayah(_, _)
insert_by_ayah(sorted, v) ==
  IF sorted = << >> THEN << v >>
  ELSE IF sorted[Len(sorted)].aya_no <= v.aya_no THEN Append(sorted, v)
  ELSE Append(insert_by_ayah(SubSeq(sorted, 1, Len(sorted) - 1), v), sorted[Len(sorted)])

sort_skipped(vs) == vs

RECURSIVE sort_by_ayah(_)
sort_by_ayah(vs) ==
  IF vs = << >> THEN << >>
  ELSE insert_by_ayah(sort_by_ayah(SubSeq(vs, 1, Len(vs) - 1)), vs[Len(vs)])

\* get_verses_info, line 70 and the start of line 72: validate the range,
\* then resolve the reciter, which loads the manifest unless it is cached
GetVersesInfo ==
  /\ pc[Main] = "idle"
  /\ IF validate_verse_range(req.surah_number, req.start_ayah, req.end_ayah) # "ok"
     THEN SetPc(Main, "raised") /\ err' = "ValueError"
     ELSE /\ SetPc(Main, IF recitations_cache = "None" THEN "rl_read" ELSE "resolve")
          /\ err' = err
  /\ UNCHANGED << wake, req, recitations_cache, last_request_timestamp, now,
                  dispatches, disk, disk0, existed, ret, verses_data, result, log,
                  fetchVars, validateVars, mergeVars, extVars >>

\* _load_recitations_data, lines 139-141: the manifest answer
LoadRecitationsData ==
  /\ pc[Main] = "inflight"
  /\ \E script \in ServerScripts :
       IF session_get(script).outcome = "response"
       THEN /\ recitations_cache' = "loaded"
            /\ SetPc(Main, "resolve")
            /\ err' = err
       ELSE /\ SetPc(Main, "raised")
            /\ err' = "RequestException"
            /\ UNCHANGED recitations_cache
  /\ UNCHANGED << wake, req, last_request_timestamp, now, dispatches, disk,
                  disk0, existed, ret, verses_data, result, log,
                  fetchVars, validateVars, mergeVars, extVars >>

\* Python's range(lo, hi): lo, lo + 1, ..., hi - 1
py_range(lo, hi) == [i \in 1 .. (IF hi > lo THEN hi - lo ELSE 0) |-> lo + i - 1]

\* a loop that stops one ayah short of end_ayah
submitted_ayahs_exclusive(start_ayah, end_ayah) == py_range(start_ayah, end_ayah)

\* the ayahs for which _process_verses_concurrently submits a future, in
\* submission order (lines 138-141)
submitted_ayahs(start_ayah, end_ayah) == py_range(start_ayah, end_ayah + 1)

\* get_verses_info lines 72-75 and _process_verses_concurrently lines 134-141:
\* an unknown reciter raises; otherwise one task per ayah of the range is
\* submitted to the pool
SubmitTasks ==
  /\ pc[Main] = "resolve"
  /\ IF get_reciter_config(req.reciter_id) # "ok"
     THEN SetPc(Main, "raised") /\ err' = "ValueError" /\ UNCHANGED future_to_ayah
     ELSE /\ future_to_ayah' = submitted_ayahs(req.start_ayah, req.end_ayah)
          /\ pc' = [t \in Threads |->
                      IF t = Main THEN "running"
                      ELSE IF \E i \in DOMAIN future_to_ayah' : future_to_ayah'[i] = t
                           THEN "start" ELSE pc[t]]
          /\ err' = err
  /\ UNCHANGED << wake, req, recitations_cache, last_request_timestamp, now,
                  dispatches, disk, disk0, existed, ret, verses_data, result, log,
                  fetchVars, validateVars, mergeVars,
                  manifestVars, ctorVars, sessionVars, durationVars, ext2OtherVars >>

\* _process_verses_concurrently lines 143-145, for the future of ayah a:
\* future.result() re-raises the task's exception; a result that is not None
\* is appended. as_completed hands the futures over in completion order, so
\* the append is taken together with the completion of the task.
Finish(a, value) ==
  /\ ret' = [ret EXCEPT ![a] = value]
  /\ IF value.kind = "raised"
     THEN /\ pc' = [pc EXCEPT ![a] = "done", ![Main] = "raised"]
          /\ err' = "Exception"
          /\ UNCHANGED verses_data
     ELSE /\ SetPc(a, "done")
          /\ verses_data' = IF value.kind = "verse" THEN Append(verses_data, value)
                            ELSE verses_data
          /\ err' = err

\* _process_single_verse lines 120-126: AudioDuration().get_duration of the
\* file at the task's path; an unreadable file raises, the exception is
\* logged and the task returns None
GetDuration(a, d, readable) ==
  LET path == audio_filepath(reciter_configs[req.reciter_id], req.surah_number, a)
  IN  IF readable /\ exists(d, path)
      THEN /\ Finish(a, [kind |-> "verse", aya_no |-> a, audio_path |-> path,
                         duration |-> d[path]])
           /\ UNCHANGED log
      ELSE /\ log' = log \cup {<< "verse_processing_error", a >>}
           /\ Finish(a, except_return)

\* _process_single_verse lines 105-122 and download_ayah lines 202-214:
\* verse text lookup and the existence check of the deterministic path; an
\* existing file goes straight to the duration, a missing one to the
\* validation that precedes the request
ProcessSingleVerse(a) ==
  /\ pc[a] = "start"
  /\ \E has_text, readable \in BOOLEAN :
       LET subfolder == reciter_configs[req.reciter_id]
           path == audio_filepath(subfolder, req.surah_number, a)
       IN  IF ~has_text
           THEN Finish(a, None) /\ UNCHANGED << existed, log >>
           ELSE IF exists(disk, path)
           THEN /\ existed' = [existed EXCEPT ![a] = "yes"]
                /\ GetDuration(a, disk, readable)
           ELSE /\ existed' = [existed EXCEPT ![a] = "no"]
                /\ IF validate_surah_ayah(req.surah_number, a) # "ok"
                      \/ get_reciter_config(req.reciter_id) # "ok"
                   THEN /\ log' = log \cup {<< "audio_download_failed", a >>}
                        /\ Finish(a, except_return)
                   ELSE /\ SetPc(a, "rl_read")
                        /\ UNCHANGED << ret, log, verses_data, err >>
  /\ UNCHANGED << wake, req, recitations_cache, last_request_timestamp, now,
                  dispatches, disk, disk0, result,
                  fetchVars, validateVars, mergeVars, extVars >>

\* download_ayah lines 217-221 and _process_single_verse lines 116-122:
\* the answer to the audio request; a good answer is written to file_path and
\* the task goes on to the duration of the file at its path
DownloadAyah(a) ==
  /\ pc[a] = "inflight"
  /\ \E script \in ServerScripts, readable \in BOOLEAN :
       LET subfolder == reciter_configs[req.reciter_id]
           written == write_bytes(disk, file_path(subfolder, req.surah_number, a),
                                  [src |-> "http", surah |-> req.surah_number, ayah |-> a])
       IN  IF session_get(script).outcome = "response"
           THEN /\ disk' = written
                /\ GetDuration(a, written, readable)
           ELSE /\ log' = log \cup {<< "audio_download_failed", a >>}
                /\ Finish(a, except_return)
                /\ UNCHANGED disk
  /\ UNCHANGED << wake, req, recitations_cache, last_request_timestamp, now,
                  dispatches, disk0, existed, result,
                  fetchVars, validateVars, mergeVars, extVars >>

\* a stand-in entry returned although no verse was collected
empty_verses_info_placeholder ==
  [verse_info |-> << 0 >>, verses_audio_paths |-> << << >> >>, verse_durations |-> << NoFile >>]

\* get_verses_info line 79: what is returned when no verse was collected
empty_verses_info ==
  [verse_info |-> << >>, verses_audio_paths |-> << >>, verse_durations |-> << >>]

\* a result whose paths and durations are taken in completion order
verses_result_unsorted(vd) ==
  LET sorted == sort_by_ayah(vd)
  IN  [verse_info |-> [i \in 1 .. Len(sorted) |-> sorted[i].aya_no],
       verses_audio_paths |-> [i \in 1 .. Len(vd) |-> vd[i].audio_path],
       verse_durations |-> [i \in 1 .. Len(vd) |-> vd[i].duration]]

\* what get_verses_info returns for the collected verses (lines 77-87)
verses_result(vd) ==
  LET sorted == sort_by_ayah(vd)
  IN  [verse_info |-> [i \in 1 .. Len(sorted) |-> sorted[i].aya_no],
       verses_audio_paths |-> [i \in 1 .. Len(sorted) |-> sorted[i].audio_path],
       verse_durations |-> [i \in 1 .. Len(sorted) |-> sorted[i].duration]]

\* a loop that ends with the first completed future and a pool that is not joined
pool_left_on_first(futures, at) == \E i \in DOMAIN futures : at[futures[i]] = "done"

\* _process_verses_concurrently lines 137-152: the as_completed loop ends when
\* every submitted future is done, and leaving the with block joins the pool
pool_left(futures, at) == \A i \in DOMAIN futures : at[futures[i]] = "done"

\* the pool is left when every future is done; get_verses_info lines 77-87
ReturnVersesInfo ==
  /\ pc[Main] = "running"
  /\ pool_left(future_to_ayah, pc)
  /\ IF verses_data = << >>
     THEN /\ log' = log \cup {<< "verses_processing_failed", 0 >>}
          /\ result' = empty_verses_info
     ELSE /\ result' = verses_result(verses_data)
          /\ UNCHANGED log
  /\ SetPc(Main, "returned")
  /\ UNCHANGED << wake, req, err, recitations_cache, last_request_timestamp, now,
                  dispatches, disk, disk0, existed, ret, verses_data,
                  fetchVars, validateVars, mergeVars, extVars >>


(* ------------------------- the coordinator model ---------------------- *)
Requests ==
  { r \in [reciter_id : ReciterInputs, surah_number : SurahInputs,
           start_ayah : AyahInputs, end_ayah : AyahInputs] :
      r.end_ayah - r.start_ayah < MaxTasks }

CachedFile(p) ==
  CHOOSE c \in [src : {"cache"}, surah : SurahInputs, ayah : AyahInputs] :
    \E r \in DOMAIN reciter_configs : audio_filepath(reciter_configs[r], c.surah, c.ayah) = p

EmptyResult == [verse_info |-> << >>, verses_audio_paths |-> << >>, verse_durations |-> << >>]

\* the state after QuranDataManager.__init__: nothing cached in memory, any
\* subset of the requested ayah files already on disk from earlier runs
CoordInit ==
  /\ pc = [t \in Threads |-> IF t = Main THEN "idle" ELSE "unsched"]
  /\ wake = [t \in Threads |-> 0]
  /\ req \in Requests
  /\ err = "none"
  /\ recitations_cache = "None"
  /\ last_request_timestamp = 0
  /\ now = request_interval
  /\ dispatches = << >>
  /\ \E present \in SUBSET (Paths \cap { audio_filepath(reciter_configs[r], req.surah_number, a) :
                                            r \in DOMAIN reciter_configs, a \in req.start_ayah .. req.end_ayah }) :
       disk = [p \in Paths |-> IF p \in present THEN CachedFile(p) ELSE NoFile]
  /\ disk0 = disk
  /\ existed = [a \in Tasks |-> "unknown"]
  /\ ret = [a \in Tasks |-> Pending]
  /\ verses_data = << >>
  /\ result = EmptyResult
  /\ log = {}

vars == << coordVars, fetchVars, validateVars, mergeVars, extVars >>

\* the other components at rest
FetchIdle == fetch_script = << >> /\ fetched = [outcome |-> "none", status |-> 0, attempts |-> 0, retried |-> << >>]
ValidateIdle == v_surah = 0 /\ v_ayah = 0 /\ v_result = "none"
MergeIdle ==
  /\ file_paths = [kind |-> "list", clips |-> << >>]
  /\ frame_rate = 8000
  /\ crossfade = 0
  /\ m_pc = "idle"
  /\ m_i = 0
  /\ merged = 0
  /\ duration_changes = << >>
  /\ total_duration_ms = 0
  /\ cumulative_crossfade = 0
  /\ m_result = [calculated_duration_ms |-> 0, total_crossfade_duration_ms |-> 0, duration_changes |-> << >>]
  /\ output_file = NoOutput

\* no call on the downloader under way, _reciters not built yet
ManifestIdle ==
  /\ callers = [c \in Callers |-> NoCall]
  /\ reciters = "None"
  /\ calls_made = 0

CtorIdle ==
  /\ ctor_args = [silence_thresh |-> -50, min_silence_duration |-> 70, fade_len |-> 15, padding_len |-> 20]
  /\ ctor_result = "none"

SessionIdle ==
  /\ verse_info = << >>
  /\ s_pc = "idle"
  /\ s_i = 0
  /\ normalized_audio = NoPath
  /\ durations = << >>
  /\ processed_files = << >>
  /\ temp_dirs = << >>
  /\ s_result = NoSessionResult

DurationIdle ==
  /\ dur_file = NoAudio
  /\ dur_result = NoDuration
  /\ fmt_seconds = 0
  /\ fmt_result = NoText

PoolIdle == future_to_ayah = << >>

NormalizeIdle ==
  /\ normalize_calls = [c \in Callers |-> NoNormalizeCall]
  /\ normalize_dirs = << >>

OverlapIdle ==
  /\ batch_req = NoRequest
  /\ batches = [b \in Batches |-> NoBatch]
  /\ batch_tasks = [b \in Batches |-> [a \in Tasks |-> NoTask]]
  /\ audio_dir = << >>

\* app.py lines 43-46: both queues start empty
QueueIdle ==
  /\ verse_queue = << >>
  /\ processing_queue = {}
  /\ last_add = NoAdd
  /\ run = NoRun

Ext2Idle == PoolIdle /\ NormalizeIdle /\ OverlapIdle /\ QueueIdle

ExtIdle == ManifestIdle /\ CtorIdle /\ SessionIdle /\ DurationIdle /\ Ext2Idle

Init == CoordInit /\ FetchIdle /\ ValidateIdle /\ MergeIdle /\ ExtIdle

Next ==
  \/ GetVersesInfo
  \/ \E t \in Threads : ApplyRateLimitRead(t)
  \/ \E t \in Threads : ApplyRateLimitStamp(t)
  \/ LoadRecitationsData
  \/ SubmitTasks
  \/ \E a \in Tasks : ProcessSingleVerse(a)
  \/ \E a \in Tasks : DownloadAyah(a)
  \/ ReturnVersesInfo
  \/ Tick

Spec == Init /\ [][Next]_vars


(* --------------------- one session.get in isolation ------------------- *)
ResponseKinds ==
  { Response(200, FALSE), Response(404, FALSE), Response(429, FALSE), Response(429, TRUE),
    Response(500, FALSE), Response(502, FALSE), Response(503, FALSE), Response(504, FALSE) }

\* the coordinator at rest, with one fixed request and an empty directory
CoordIdle ==
  /\ pc = [t \in Threads |-> IF t = Main THEN "idle" ELSE "unsched"]
  /\ wake = [t \in Threads |-> 0]
  /\ req = [reciter_id |-> 6, surah_number |-> 108, start_ayah |-> 1, end_ayah |-> 1]
  /\ err = "none"
  /\ last_request_timestamp = 0
  /\ now = request_interval
  /\ dispatches = << >>
  /\ disk = [p \in Paths |-> NoFile]
  /\ disk0 = disk
  /\ existed = [a \in Tasks |-> "unknown"]
  /\ ret = [a \in Tasks |-> Pending]
  /\ verses_data = << >>
  /\ result = EmptyResult
  /\ log = {}

\* the server may answer each of the attempts with any of the response kinds;
\* one answer more than the retry budget can consume is made available
FetchInit ==
  /\ CoordIdle /\ recitations_cache = "None"
  /\ ValidateIdle /\ MergeIdle /\ ExtIdle
  /\ fetch_script \in [1 .. RetryTotal + 2 -> ResponseKinds]
  /\ fetched = [outcome |-> "none", status |-> 0, attempts |-> 0, retried |-> << >>]

\* response = self.session.get(download_url); response.raise_for_status()
SessionGet ==
  /\ fetched.outcome = "none"
  /\ fetched' = session_get(fetch_script)
  /\ UNCHANGED << fetch_script, coordVars, validateVars, mergeVars, extVars >>

FetchNext == SessionGet

SpecFetch == FetchInit /\ [][FetchNext]_vars

(* ------------------- _validate_surah_ayah in isolation ---------------- *)
RECURSIVE SeqMax(_)
SeqMax(q) == IF Len(q) = 1 THEN q[1]
             ELSE LET m == SeqMax(SubSeq(q, 1, Len(q) - 1))
                  IN  IF q[Len(q)] > m THEN q[Len(q)] ELSE m

SurahProbes == 0 .. Len(ayahCount) + 1
AyahProbes == 0 .. SeqMax(ayahCount) + 1

ValidateInit ==
  /\ CoordIdle /\ recitations_cache \in {"None", "loaded"}
  /\ FetchIdle /\ MergeIdle /\ ExtIdle
  /\ v_surah \in SurahProbes
  /\ v_ayah \in AyahProbes
  /\ v_result = "none"

\* _validate_surah_ayah, lines 181-189, with _load_recitations_data (lines
\* 137-142) and the single-threaded _apply_rate_limit it runs when the
\* manifest is not cached yet
ValidateSurahAyah ==
  /\ v_result = "none"
  /\ IF recitations_cache = "None"
     THEN \E script \in ServerScripts :
            LET time_elapsed == now - last_request_timestamp
                sent == IF time_elapsed < request_interval
                        THEN now + (request_interval - time_elapsed) ELSE now
            IN  /\ now' = sent
                /\ last_request_timestamp' = sent
                /\ dispatches' = Append(dispatches, << sent, RECITATIONS_URL >>)
                /\ IF session_get(script).outcome = "response"
                   THEN /\ recitations_cache' = "loaded"
                        /\ v_result' = validate_surah_ayah(v_surah, v_ayah)
                   ELSE /\ UNCHANGED recitations_cache
                        /\ v_result' = "RequestException"
     ELSE /\ v_result' = validate_surah_ayah(v_surah, v_ayah)
          /\ UNCHANGED << now, last_request_timestamp, dispatches, recitations_cache >>
  /\ UNCHANGED << pc, wake, req, err, disk, disk0, existed, ret, verses_data,
                  result, log, v_surah, v_ayah, fetchVars, mergeVars, extVars >>

ValidateNext == ValidateSurahAyah

SpecValidate == ValidateInit /\ [][ValidateNext]_vars

(* ------------- the manifest cache of one QuranAudioDownloader --------- *)
\* The methods that reach the manifest. Each is what it still has to do:
\* "reciters" is a read of the reciters property (lines 144-150), "load" a
\* direct call of _load_recitations_data (line 181).
Methods == {"get_reciter_config", "list_available_reciters", "_validate_surah_ayah", "download_ayah"}

MethodSteps(m) ==
  IF m = "_validate_surah_ayah" THEN << "load" >>
  ELSE IF m = "download_ayah" THEN << "load", "reciters" >>
  ELSE << "reciters" >>

ManifestInit ==
  /\ CoordIdle /\ recitations_cache = "None"
  /\ FetchIdle /\ ValidateIdle /\ MergeIdle
  /\ ManifestIdle /\ CtorIdle /\ SessionIdle /\ DurationIdle /\ Ext2Idle

ManifestUnchanged ==
  UNCHANGED << pc, wake, req, err, disk, disk0, existed, ret, verses_data, result, log,
               fetchVars, validateVars, mergeVars, ctorVars, sessionVars, durationVars,
               ext2Vars >>

\* a caller enters one of the methods
CallMethod(c) ==
  /\ callers[c] = NoCall
  /\ calls_made < MaxCalls
  /\ \E m \in Methods : callers' = [callers EXCEPT ![c] = [todo |-> MethodSteps(m), at |-> "idle"]]
  /\ calls_made' = calls_made + 1
  /\ UNCHANGED << reciters, recitations_cache, last_request_timestamp, now, dispatches >>
  /\ ManifestUnchanged

\* the step of the call is over: the reciters property stores the collection
\* it built (line 149)
StepDone(c) ==
  /\ callers' = [callers EXCEPT ![c] = [todo |-> Tail(callers[c].todo), at |-> "idle"]]
  /\ reciters' = IF Head(callers[c].todo) = "reciters" THEN "loaded" ELSE reciters

\* the reciters property, line 147: a collection already built is returned,
\* otherwise _load_recitations_data is called; a direct call enters it too
ReadReciters(c) ==
  /\ callers[c].at = "idle"
  /\ callers[c].todo # << >>
  /\ IF Head(callers[c].todo) = "reciters" /\ reciters # "None"
     THEN StepDone(c)
     ELSE /\ callers' = [callers EXCEPT ![c].at = "check"]
          /\ UNCHANGED reciters
  /\ UNCHANGED << calls_made, recitations_cache, last_request_timestamp, now, dispatches >>
  /\ ManifestUnchanged

\* _load_recitations_data, line 137: the test of the cache
LoadCheck(c) ==
  /\ callers[c].at = "check"
  /\ IF recitations_cache # "None"
     THEN StepDone(c)
     ELSE /\ callers' = [callers EXCEPT ![c].at = "get"]
          /\ UNCHANGED reciters
  /\ UNCHANGED << calls_made, recitations_cache, last_request_timestamp, now, dispatches >>
  /\ ManifestUnchanged

\* _load_recitations_data, lines 138-141: the rate limit, the GET of the
\* manifest and the assignment of the cache; a failed GET raises out of the
\* method and leaves the cache as it was
LoadGet(c) ==
  /\ callers[c].at = "get"
  /\ \E script \in ServerScripts :
       LET time_elapsed == now - last_request_timestamp
           sent == IF time_elapsed < request_interval
                   THEN now + (request_interval - time_elapsed) ELSE now
       IN  /\ now' = sent
           /\ last_request_timestamp' = sent
           /\ dispatches' = Append(dispatches, << sent, RECITATIONS_URL >>)
           /\ IF session_get(script).outcome = "response"
              THEN /\ recitations_cache' = "loaded"
                   /\ StepDone(c)
              ELSE /\ callers' = [callers EXCEPT ![c] = NoCall]
                   /\ UNCHANGED << recitations_cache, reciters >>
  /\ UNCHANGED calls_made
  /\ ManifestUnchanged

\* QuranDataManager.__init__, line 46, run by the frontend for every request
\* (get_verse_info.py lines 19-22): a new downloader with nothing cached
NewQuranDataManager ==
  /\ \A c \in Callers : callers[c] = NoCall
  /\ recitations_cache # "None"
  /\ calls_made < MaxCalls
  /\ recitations_cache' = "None"
  /\ reciters' = "None"
  /\ last_request_timestamp' = 0
  /\ UNCHANGED << callers, calls_made, now, dispatches >>
  /\ ManifestUnchanged

ManifestNext ==
  \/ \E c \in Callers : CallMethod(c)
  \/ \E c \in Callers : ReadReciters(c)
  \/ \E c \in Callers : LoadCheck(c)
  \/ \E c \in Callers : LoadGet(c)
  \/ NewQuranDataManager

SpecManifest == ManifestInit /\ [][ManifestNext]_vars

(* ------------------- AudioProcessor.merge_audio_files ----------------- *)
\* A segment is the number of frames it holds; all clips of one merge share
\* one frame rate. Lengths are what pydub reports: whole milliseconds.
MaxClips == 3
MaxClipSteps == 12
MaxCrossfade == 2
FrameRates == {8000, 11025}
ClipFrames == { 2 * k : k \in 0 .. MaxClipSteps }

\* Python round(n / d) for n >= 0, d > 0: ties go to the even neighbour
round_half_even(n, d) ==
  LET q == n \div d
      r == n % d
  IN  IF 2 * r < d THEN q
      ELSE IF 2 * r > d THEN q + 1
      ELSE IF q % 2 = 0 THEN q ELSE q + 1

\* len(segment) = round(1000 * frame_count / frame_rate)
segment_len(frames, rate) == round_half_even(1000 * frames, rate)

\* int(segment.frame_count(ms=ms)) = int(ms * frame_rate / 1000.0)
frame_count(ms, rate) == (ms * rate) \div 1000

\* an append that shortens the crossfade to the shorter segment instead of
\* raising
append_clamped(seg1, seg2, cf, rate) ==
  LET len1 == segment_len(seg1, rate)
      len2 == segment_len(seg2, rate)
      shorter == IF len1 < len2 THEN len1 ELSE len2
      used == IF cf < shorter THEN cf ELSE shorter
      head == frame_count(len1 - used, rate)
      xf == frame_count(len1, rate) - head
      xf_faded == frame_count(segment_len(xf, rate), rate)
      tail == frame_count(len2, rate) - frame_count(used, rate)
  IN  IF cf = 0 THEN [ok |-> TRUE, frames |-> seg1 + seg2]
      ELSE [ok |-> TRUE, frames |-> head + xf_faded + tail]

\* merged.append(current_audio, crossfade=crossfade): without crossfade the
\* frames are concatenated; a crossfade longer than either segment raises
\* ValueError; otherwise the result is seg1[:-cf], the faded overlap and
\* seg2[cf:], each cut at millisecond positions
append(seg1, seg2, cf, rate) ==
  LET len1 == segment_len(seg1, rate)
      len2 == segment_len(seg2, rate)
      head == frame_count(len1 - cf, rate)
      xf == frame_count(len1, rate) - head
      xf_faded == frame_count(segment_len(xf, rate), rate)
      tail == frame_count(len2, rate) - frame_count(cf, rate)
  IN  IF cf = 0 THEN [ok |-> TRUE, frames |-> seg1 + seg2]
      ELSE IF cf > len1 \/ cf > len2 THEN [ok |-> FALSE, frames |-> 0]
      ELSE [ok |-> TRUE, frames |-> head + xf_faded + tail]

\* the bookkeeping with the crossfade never subtracted
effective_duration_full(merged_len, original_duration, cf) == original_duration

\* lines 183-190: what a clip is booked to contribute
effective_duration(merged_len, original_duration, cf) ==
  IF merged_len > 0 THEN original_duration - cf ELSE original_duration

\* what a caller may pass as file_paths: a list, an iterator or generator, a
\* tuple (a collection that is neither), or something that holds no paths
FilePathInputs ==
  [kind : {"list", "iterator", "tuple"},
   clips : UNION { [1 .. n -> ClipFrames] : n \in 0 .. MaxClips }]
    \cup {[kind |-> "other", clips |-> << >>]}

\* the argument checks left out
check_file_paths_unchecked(fp) == "ok"

\* merge_audio_files lines 165-172: an iterator is drained into a list, what
\* is not a list then is a TypeError, an empty list a ValueError
check_file_paths(fp) ==
  IF fp.kind \notin {"list", "iterator"} THEN "TypeError"
  ELSE IF fp.clips = << >> THEN "ValueError"
  ELSE "ok"

MergeInit ==
  /\ CoordIdle /\ recitations_cache = "None"
  /\ FetchIdle /\ ValidateIdle /\ ExtIdle
  /\ file_paths \in FilePathInputs
  /\ frame_rate \in FrameRates
  /\ crossfade \in 0 .. MaxCrossfade
  /\ m_pc = "idle"
  /\ m_i = 0
  /\ merged = 0
  /\ duration_changes = << >>
  /\ total_duration_ms = 0
  /\ cumulative_crossfade = 0
  /\ m_result = [calculated_duration_ms |-> 0, total_crossfade_duration_ms |-> 0, duration_changes |-> << >>]
  /\ output_file = NoOutput

\* merge_audio_files lines 165-177: the argument checks and the empty
\* accumulator
MergeAudioFiles ==
  /\ m_pc = "idle"
  /\ IF check_file_paths(file_paths) # "ok"
     THEN m_pc' = check_file_paths(file_paths) /\ UNCHANGED m_i
     ELSE m_pc' = "loop" /\ m_i' = 1
  /\ UNCHANGED << file_paths, frame_rate, crossfade, merged, duration_changes,
                  total_duration_ms, cumulative_crossfade, m_result, output_file,
                  coordVars, fetchVars, validateVars, extVars >>

\* merge_audio_files lines 179-205: one pass of the loop
MergeClip ==
  /\ m_pc = "loop"
  /\ m_i <= Len(file_paths.clips)
  /\ LET current_audio == file_paths.clips[m_i]
         original_duration == segment_len(current_audio, frame_rate)
         merged_len == segment_len(merged, frame_rate)
         effective == effective_duration(merged_len, original_duration, crossfade)
         appended == append(merged, current_audio, crossfade, frame_rate)
     IN  /\ cumulative_crossfade' = IF merged_len > 0 THEN cumulative_crossfade + crossfade
                                    ELSE cumulative_crossfade
         /\ total_duration_ms' = total_duration_ms + effective
         /\ duration_changes' = Append(duration_changes,
              [file |-> m_i,
               original_duration_ms |-> original_duration,
               effective_duration_ms |-> effective,
               difference_ms |-> effective - original_duration])
         /\ IF merged_len > 0
            THEN IF appended.ok
                 THEN merged' = appended.frames /\ m_i' = m_i + 1 /\ UNCHANGED m_pc
                 ELSE m_pc' = "ValueError" /\ UNCHANGED << merged, m_i >>
            ELSE merged' = current_audio /\ m_i' = m_i + 1 /\ UNCHANGED m_pc
  /\ UNCHANGED << file_paths, frame_rate, crossfade, m_result, output_file,
                  coordVars, fetchVars, validateVars, extVars >>

\* merge_audio_files lines 207-219: export and the returned dictionary
MergeExport ==
  /\ m_pc = "loop"
  /\ m_i > Len(file_paths.clips)
  /\ m_pc' = "done"
  /\ m_result' = [calculated_duration_ms |-> total_duration_ms,
                  total_crossfade_duration_ms |-> cumulative_crossfade,
                  duration_changes |-> duration_changes]
  /\ output_file' = [written |-> TRUE, frames |-> merged]
  /\ UNCHANGED << file_paths, frame_rate, crossfade, m_i, merged, duration_changes,
                  total_duration_ms, cumulative_crossfade,
                  coordVars, fetchVars, validateVars, extVars >>

MergeNext == MergeAudioFiles \/ MergeClip \/ MergeExport

SpecMerge == MergeInit /\ [][MergeNext]_vars

(* ===================== properties of the coordinator ================== *)
DispatchTimes == { dispatches[i][1] : i \in 1 .. Len(dispatches) }
AudioUrl(a) == download_url(reciter_configs[req.reciter_id], req.surah_number, a)
AudioPath(a) == audio_filepath(reciter_configs[req.reciter_id], req.surah_number, a)
DispatchesFor(url) == { i \in 1 .. Len(dispatches) : dispatches[i][2] = url }
ResultAyahs == { result.verse_info[i] : i \in 1 .. Len(result.verse_info) }
Succeeded == { a \in AyahRange : ret[a].kind = "verse" }

\* C1: any two session.get dispatches made through the one downloader are at
\* least request_interval apart, under every interleaving of the tasks.
C1_DispatchesSeparated ==
  \A i, j \in 1 .. Len(dispatches) :
    i < j => dispatches[j][1] - dispatches[i][1] >= request_interval

\* C2: a failing ayah task neither fails the call nor cancels a sibling: the
\* call returns after every task of the range has finished, and the result
\* lists exactly the ayahs whose own task succeeded, with no entry for the
\* others.
C2_FailureIsolation ==
  /\ err # "Exception"
  /\ pc[Main] = "returned" =>
       /\ \A a \in AyahRange : pc[a] = "done"
       /\ ResultAyahs = Succeeded
       /\ Len(result.verse_info) = Cardinality(Succeeded)

C2_Witness ==
  /\ pc[Main] = "returned"
  /\ req.start_ayah = 1 /\ req.end_ayah = 3
  /\ << "audio_download_failed", 2 >> \in log
  /\ result.verse_info = << 1, 3 >>

\* C3: the returned verse list is strictly increasing in ayah number whatever
\* the order in which the tasks completed.
C3_ResultOrdered ==
  pc[Main] = "returned" =>
    \A i, j \in 1 .. Len(result.verse_info) :
      i < j => result.verse_info[i] < result.verse_info[j]

C3_Witness ==
  /\ pc[Main] = "returned"
  /\ Len(verses_data) >= 2
  /\ verses_data[1].aya_no > verses_data[2].aya_no
  /\ Len(result.verse_info) = Len(verses_data)

InvalidRange ==
  \/ ~(1 <= req.surah_number /\ req.surah_number <= 114)
  \/ req.start_ayah > req.end_ayah
  \/ req.end_ayah > ayahCount[req.surah_number]

\* C4: a request with an invalid range (surah outside 1..114, start after
\* end, or end beyond the surah's ayah count) fails before any task is
\* scheduled: no task runs and no audio request is made.
C4_InvalidRangeFailsFast ==
  InvalidRange =>
    /\ \A a \in Tasks : pc[a] = "unsched"
    /\ pc[Main] \notin {"running", "returned"}
    /\ \A a \in Tasks : DispatchesFor(download_url(reciter_configs[6], req.surah_number, a)) = {}

\* C10: a task whose file already exists makes no request and uses the file
\* unchanged; a task whose file is missing downloads it once and writes it at
\* exactly the checked path; no other path of the directory is touched.
C10_ExistingFileReused ==
  /\ DOMAIN disk = DOMAIN disk0
  /\ \A p \in DOMAIN disk0 :
       disk[p] # disk0[p] =>
         \E a \in AyahRange : existed[a] = "no" /\ p = AudioPath(a) /\ disk[p].src = "http"
  /\ pc[Main] \in {"running", "returned"} =>
       \A a \in AyahRange :
         /\ existed[a] = "yes" =>
              /\ DispatchesFor(AudioUrl(a)) = {}
              /\ disk[AudioPath(a)] = disk0[AudioPath(a)]
              /\ ret[a].kind = "verse" =>
                   ret[a].audio_path = AudioPath(a) /\ ret[a].duration = disk0[AudioPath(a)]
         /\ existed[a] # "no" => DispatchesFor(AudioUrl(a)) = {}
         /\ existed[a] = "no" =>
              /\ Cardinality(DispatchesFor(AudioUrl(a))) <= 1
              /\ disk0[AudioPath(a)] = NoFile
              /\ ret[a].kind = "verse" =>
                   /\ disk[AudioPath(a)] = [src |-> "http", surah |-> req.surah_number, ayah |-> a]
                   /\ Cardinality(DispatchesFor(AudioUrl(a))) = 1

C10_Witness ==
  /\ pc[Main] = "returned"
  /\ \E a, b \in AyahRange :
       /\ existed[a] = "yes" /\ ret[a].kind = "verse"
       /\ existed[b] = "no" /\ ret[b].kind = "verse"

\* C11: when every task of a valid request has failed, get_verses_info
\* returns the result whose three lists are empty; it raises only before any
\* task was scheduled.
C11_AllFailedReturnsEmpty ==
  /\ pc[Main] = "raised" => \A a \in Tasks : pc[a] = "unsched"
  /\ (pc[Main] = "returned" /\ Succeeded = {}) =>
       /\ err = "none"
       /\ result.verse_info = << >>
       /\ result.verses_audio_paths = << >>
       /\ result.verse_durations = << >>

C11_Witness ==
  /\ pc[Main] = "returned"
  /\ req.end_ayah > req.start_ayah
  /\ \A a \in AyahRange : ret[a] = None
  /\ << "audio_download_failed", req.start_ayah >> \in log
  /\ result.verse_info = << >>

\* C12: every ayah of the range that is missing from the returned result has
\* a failure record logged for it.
C12_EveryDropLogged ==
  pc[Main] = "returned" =>
    \A a \in AyahRange \ ResultAyahs : \E e \in log : e[2] = a

\* C14: an unknown reciter id fails get_verses_info with the unknown-reciter
\* error before any task is scheduled and before any audio request; a known
\* id resolves to the manifest's entry, whose subfolder every task uses.
C14_UnknownReciterFailsFast ==
  /\ req.reciter_id \notin DOMAIN reciter_configs =>
       /\ \A a \in Tasks : pc[a] = "unsched"
       /\ pc[Main] \notin {"running", "returned"}
       /\ \A i \in 1 .. Len(dispatches) : dispatches[i][2] = RECITATIONS_URL
       /\ (pc[Main] = "raised" /\ recitations_cache = "loaded") => err = "ValueError"
  /\ req.reciter_id \in DOMAIN reciter_configs =>
       /\ (pc[Main] = "raised" /\ recitations_cache = "loaded") =>
            validate_verse_range(req.surah_number, req.start_ayah, req.end_ayah) # "ok"
       /\ \A a \in Tasks :
            ret[a].kind = "verse" => ret[a].audio_path[1] = reciter_configs[req.reciter_id]

C14_Witness ==
  /\ req.reciter_id \notin DOMAIN reciter_configs
  /\ validate_verse_range(req.surah_number, req.start_ayah, req.end_ayah) = "ok"
  /\ recitations_cache = "loaded"
  /\ pc[Main] = "raised"
  /\ err = "ValueError"

\* C22: get_verses_info returns only after every per-ayah task it scheduled
\* has finished: at the return each task of the range is done and its future
\* holds a value, no other task was ever started, and this is so as well when
\* some of the tasks failed.
C22_ReturnsAfterAllTasks ==
  pc[Main] = "returned" =>
    /\ \A i \in DOMAIN future_to_ayah :
         pc[future_to_ayah[i]] = "done" /\ ret[future_to_ayah[i]] # Pending
    /\ \A a \in Tasks : pc[a] \in {"unsched", "done"}

C22_Witness ==
  /\ pc[Main] = "returned"
  /\ future_to_ayah = << 1, 2, 3 >>
  /\ ret[1] = None
  /\ << "audio_download_failed", 2 >> \in log
  /\ ret[3].kind = "verse" /\ existed[3] = "no"

\* C23: within one call every ayah of [start_ayah, end_ayah] is submitted
\* exactly once and nothing else is, the ayahs of the batch have pairwise
\* distinct file paths and URLs, and no URL of the batch is requested twice.
C23_OneTaskPerAyah ==
  pc[Main] \in {"running", "returned"} =>
    /\ \A a \in AyahRange :
         Cardinality({ i \in DOMAIN future_to_ayah : future_to_ayah[i] = a }) = 1
    /\ \A i \in DOMAIN future_to_ayah : future_to_ayah[i] \in AyahRange
    /\ \A a \in Tasks \ AyahRange : pc[a] = "unsched"
    /\ \A a, b \in AyahRange :
         a # b => AudioPath(a) # AudioPath(b) /\ AudioUrl(a) # AudioUrl(b)
    /\ \A a \in AyahRange : Cardinality(DispatchesFor(AudioUrl(a))) <= 1

C23_Witness ==
  /\ pc[Main] = "running"
  /\ future_to_ayah = << 1, 2, 3 >>
  /\ Cardinality(DispatchesFor(AudioUrl(1))) = 1
  /\ Cardinality(DispatchesFor(AudioUrl(2))) = 1
  /\ pc[1] = "inflight" /\ pc[2] = "inflight"

\* C26: in every returned result the three lists have one length and index i
\* of each describes one ayah: that ayah is in the requested range, is listed
\* once, its path is the deterministic path of the ayah, a file is present
\* there, and the duration is the one read from that file.
C26_ResultAligned ==
  pc[Main] = "returned" =>
    /\ Len(result.verses_audio_paths) = Len(result.verse_info)
    /\ Len(result.verse_durations) = Len(result.verse_info)
    /\ \A i \in 1 .. Len(result.verse_info) :
         LET a == result.verse_info[i]
         IN  /\ a \in AyahRange
             /\ \A j \in 1 .. Len(result.verse_info) : j # i => result.verse_info[j] # a
             /\ result.verses_audio_paths[i] = AudioPath(a)
             /\ exists(disk, AudioPath(a))
             /\ result.verse_durations[i] = disk[AudioPath(a)]

C26_Witness ==
  /\ pc[Main] = "returned"
  /\ result.verse_info = << 1, 2, 3 >>
  /\ verses_data[1].aya_no = 3
  /\ existed[1] = "yes" /\ existed[2] = "no"
  /\ result.verse_durations[1] # result.verse_durations[2]

(* ======================= properties of session.get ==================== *)
Answered == fetched.outcome # "none"
Retries == fetched.attempts - 1

\* C7 as stated: an answered fetch is retried only on 500, 502, 503 or 504;
\* 503, 503, 200 succeeds after exactly 2 retries; a first answer of any 4xx
\* fails at once with zero retries.
C7_RetryOnlyOnTransient ==
  Answered =>
    /\ \A k \in 1 .. Retries : fetch_script[k].status \in {500, 502, 503, 504}
    /\ (fetch_script[1].status = 503 /\ fetch_script[2].status = 503 /\ fetch_script[3].status = 200)
         => fetched.outcome = "response" /\ fetched.status = 200 /\ Retries = 2
    /\ (fetch_script[1].status >= 400 /\ fetch_script[1].status < 500)
         => fetched.outcome = "HTTPError" /\ Retries = 0

\* C7 amended: an answered fetch is retried only on 500, 502, 503 or 504, or
\* on a 413, 429 or 503 answer that carries a Retry-After header; 503, 503, 200
\* succeeds after exactly 2 retries; a first answer of 4xx without such a
\* header fails at once with zero retries.
C7_RetryOnlyOnTransientOrRetryAfter ==
  Answered =>
    /\ \A k \in 1 .. Retries :
         \/ fetch_script[k].status \in {500, 502, 503, 504}
         \/ fetch_script[k].retry_after /\ fetch_script[k].status \in {413, 429, 503}
    /\ (fetch_script[1].status = 503 /\ fetch_script[2].status = 503 /\ fetch_script[3].status = 200)
         => fetched.outcome = "response" /\ fetched.status = 200 /\ Retries = 2
    /\ (fetch_script[1].status >= 400 /\ fetch_script[1].status < 500
        /\ ~(fetch_script[1].retry_after /\ fetch_script[1].status \in {413, 429}))
         => fetched.outcome = "HTTPError" /\ Retries = 0

C7_Witness ==
  /\ fetch_script[1].status = 503 /\ fetch_script[2].status = 503 /\ fetch_script[3].status = 200
  /\ fetched.outcome = "response" /\ Retries = 2

\* C8: a fetch never makes more than 1 + 3 attempts, and one whose every
\* attempt is answered 500, 502, 503 or 504 makes exactly that many and then
\* fails with the retry error instead of returning a body.
C8_RetryBudget ==
  Answered =>
    /\ fetched.attempts <= 1 + 3
    /\ (\A k \in 1 .. 1 + 3 : fetch_script[k].status \in {500, 502, 503, 504})
         => fetched.outcome = "RetryError" /\ fetched.attempts = 1 + 3

C8_Witness ==
  /\ \A k \in 1 .. 1 + 3 : fetch_script[k].status \in {500, 502, 503, 504}
  /\ fetched.outcome = "RetryError"

(* ================= properties of _validate_surah_ayah ================= *)
\* C9: with the manifest available, _validate_surah_ayah accepts (surah, ayah)
\* exactly when 1 <= surah <= 114 and 1 <= ayah <= the manifest's count for
\* that surah, and rejects every other pair with ValueError.
C9_ValidateIff ==
  v_result \notin {"none", "RequestException"} =>
    LET in_range == IF 1 <= v_surah /\ v_surah <= 114
                    THEN 1 <= v_ayah /\ v_ayah <= ayahCount[v_surah]
                    ELSE FALSE
    IN  /\ in_range => v_result = "ok"
        /\ ~in_range => v_result = "ValueError"

C9_Witness ==
  /\ v_surah = 114 /\ v_ayah = ayahCount[114]
  /\ v_result = "ok"

(* ==================== properties of merge_audio_files ================= *)
ClipLen(k) == segment_len(file_paths.clips[k], frame_rate)

RECURSIVE SumEffective(_)
SumEffective(changes) ==
  IF changes = << >> THEN 0
  ELSE SumEffective(SubSeq(changes, 1, Len(changes) - 1)) + changes[Len(changes)].effective_duration_ms

\* C5: a successful merge returns one record per clip, in input order, whose
\* effective duration is the clip's length for the first clip and the length
\* minus the crossfade for every later clip (difference 0 and -crossfade).
C5_EffectiveDurations ==
  m_pc = "done" =>
    /\ Len(m_result.duration_changes) = Len(file_paths.clips)
    /\ \A k \in 1 .. Len(m_result.duration_changes) :
         LET change == m_result.duration_changes[k]
         IN  /\ change.file = k
             /\ change.original_duration_ms = ClipLen(k)
             /\ change.effective_duration_ms = IF k = 1 THEN ClipLen(k) ELSE ClipLen(k) - crossfade
             /\ change.difference_ms = IF k = 1 THEN 0 ELSE 0 - crossfade

NoMergeResult ==
  /\ m_result.duration_changes = << >>
  /\ output_file = NoOutput

NoNegativeRecord ==
  m_pc = "done" =>
    \A k \in 1 .. Len(m_result.duration_changes) :
      m_result.duration_changes[k].effective_duration_ms >= 0

audio_processor_init_floor(silence_thresh, min_silence_duration, fade_len, padding_len) ==
  IF ~(-100 <= silence_thresh /\ silence_thresh <= 0) THEN "AudioProcessorError"
  ELSE IF min_silence_duration <= 0 THEN "AudioProcessorError"
  ELSE IF padding_len * 2 >= min_silence_duration THEN "AudioProcessorError"
  ELSE IF fade_len >= min_silence_duration \div 4 THEN "AudioProcessorError"
  ELSE "ok"

\* AudioProcessor.__init__, lines 84-94. fade_len >= min_silence_duration / 4
\* is a true division; over the integers it is 4 * fade_len >= the minimum.
audio_processor_init(silence_thresh, min_silence_duration, fade_len, padding_len) ==
  IF ~(-100 <= silence_thresh /\ silence_thresh <= 0) THEN "AudioProcessorError"
  ELSE IF min_silence_duration <= 0 THEN "AudioProcessorError"
  ELSE IF padding_len * 2 >= min_silence_duration THEN "AudioProcessorError"
  ELSE IF 4 * fade_len >= min_silence_duration THEN "AudioProcessorError"
  ELSE "ok"

\* the defaults of AudioProcessor.__init__, lines 71-74
default_args ==
  [silence_thresh |-> -50, min_silence_duration |-> 70, fade_len |-> 15, padding_len |-> 20]

\* create_with_preset, lines 123-127
presets ==
  [default |-> [silence_thresh |-> -50, min_silence_duration |-> 300, fade_len |-> 20, padding_len |-> 40],
   conservative |-> [silence_thresh |-> -60, min_silence_duration |-> 500, fade_len |-> 30, padding_len |-> 100],
   aggressive |-> [silence_thresh |-> -40, min_silence_duration |-> 200, fade_len |-> 10, padding_len |-> 25]]

\* cls(**args)
construct(args) ==
  audio_processor_init(args.silence_thresh, args.min_silence_duration, args.fade_len, args.padding_len)

\* create_with_preset, lines 129-132
create_with_preset(preset) ==
  IF preset \notin DOMAIN presets THEN "ValueError" ELSE construct(presets[preset])

\* a mkdtemp that hands out the directory it made last
mkdtemp_reused(dirs) ==
  IF dirs = << >> THEN << [files |-> {}, removed |-> FALSE] >> ELSE dirs

\* tempfile.mkdtemp(): a new, empty directory; its number is its position
mkdtemp(dirs) == Append(dirs, [files |-> {}, removed |-> FALSE])

\* _create_temp_path, lines 221-223: os.path.join(self.temp_dir, filename)
\* for the processor whose directory is numbered k
create_temp_path(k, filename) == [dir |-> k, name |-> filename]

\* segment.export(path): the file of that name in the directory is replaced
export(dirs, path, audio) ==
  [dirs EXCEPT ![path.dir].files =
     { f \in @ : f.name # path.name }
       \cup {[name |-> path.name, source |-> audio.source, frames |-> audio.frames]}]

\* AudioSegment.from_file(path): what the file at the path holds now
from_file(dirs, path) == CHOOSE f \in dirs[path.dir].files : f.name = path.name

\* AudioProcessor.cleanup, lines 227-230, for the directory numbered k
cleanup(dirs, k) ==
  IF dirs[k].removed THEN dirs
  ELSE [dirs EXCEPT ![k] = [files |-> {}, removed |-> TRUE]]

CtorInputs ==
  [silence_thresh : {-101, -100, -50, 0, 1},
   min_silence_duration : {-1, 0, 1, 70, 300},
   fade_len : {-1, 0, 15, 17, 18, 74, 75, 100},
   padding_len : {-1, 0, 20, 34, 35, 149, 150, 200}]
    \cup {default_args} \cup { presets[p] : p \in DOMAIN presets }

CtorInit ==
  /\ CoordIdle /\ recitations_cache = "None"
  /\ FetchIdle /\ ValidateIdle /\ MergeIdle
  /\ ManifestIdle /\ SessionIdle /\ DurationIdle /\ Ext2Idle
  /\ ctor_args \in CtorInputs
  /\ ctor_result = "none"

\* AudioProcessor(**ctor_args): the checks of lines 84-94, then the fields
\* and the temporary directory of lines 96-101
AudioProcessorInit ==
  /\ ctor_result = "none"
  /\ ctor_result' = construct(ctor_args)
  /\ temp_dirs' = IF construct(ctor_args) = "ok" THEN mkdtemp(temp_dirs) ELSE temp_dirs
  /\ UNCHANGED << ctor_args, verse_info, s_pc, s_i, normalized_audio, durations,
                  processed_files, s_result,
                  coordVars, fetchVars, validateVars, mergeVars, manifestVars, durationVars,
                  ext2Vars >>

CtorNext == AudioProcessorInit

SpecConstruct == CtorInit /\ [][CtorNext]_vars

(* ----------------- process_audio_files (one session) ------------------ *)
\* frames of a processed clip at 8000 Hz: 250 ms, 500 ms, 1000 ms
SessionClipFrames == {2000, 4000, 8000}

\* merge_audio_files, line 154: crossfade: int = 500
default_crossfade == 500

RECURSIVE SortedSeq(_)
SortedSeq(S) ==
  IF S = {} THEN << >>
  ELSE LET m == CHOOSE x \in S : \A y \in S : y <= x
       IN  Append(SortedSeq(S \ {m}), m)

\* what get_verses_info hands over: the verses found, in ayah order, and the
\* audio path of each
VerseInfoInputs ==
  { LET ayahs == SortedSeq(A)
    IN  [verse_info |-> ayahs,
         verses_audio_paths |-> [i \in 1 .. Len(ayahs) |-> audio_filepath(reciter_configs[6], 108, ayahs[i])]] :
    A \in { B \in SUBSET AyahInputs : Cardinality(B) <= MaxTasks } }

\* the per-file handler skipping the file instead of ending the session
on_processing_error_continue == "continue"

\* process_audio_files, lines 46-48: show_error, return None
on_processing_error == "return"

MergeUncalled ==
  /\ file_paths = [kind |-> "list", clips |-> << >>]
  /\ frame_rate = 8000
  /\ crossfade = 0
  /\ m_pc = "uncalled"
  /\ m_i = 0
  /\ merged = 0
  /\ duration_changes = << >>
  /\ total_duration_ms = 0
  /\ cumulative_crossfade = 0
  /\ m_result = [calculated_duration_ms |-> 0, total_crossfade_duration_ms |-> 0, duration_changes |-> << >>]
  /\ output_file = NoOutput

SessionInit ==
  /\ CoordIdle /\ recitations_cache = "None"
  /\ FetchIdle /\ ValidateIdle /\ MergeUncalled
  /\ ManifestIdle /\ CtorIdle /\ DurationIdle /\ Ext2Idle
  /\ verse_info \in VerseInfoInputs
  /\ s_pc = "idle"
  /\ s_i = 0
  /\ normalized_audio = NoPath
  /\ durations = << >>
  /\ processed_files = << >>
  /\ temp_dirs = << >>
  /\ s_result = NoSessionResult

SessionUnchanged ==
  UNCHANGED << coordVars, fetchVars, validateVars, manifestVars, ctorVars, durationVars,
               ext2Vars >>

MergeUntouched ==
  UNCHANGED << file_paths, frame_rate, crossfade, m_pc, m_i, merged, duration_changes,
               total_duration_ms, cumulative_crossfade, m_result, output_file >>

\* leaving the with block of line 19, by return or by exception: __exit__
\* (lines 236-238) runs cleanup on the processor of the with statement, whose
\* directory is the first one the session made
ExitWith(dirs, kind, final_durations) ==
  /\ s_pc' = "exited"
  /\ s_result' = [kind |-> kind, final_durations |-> final_durations]
  /\ temp_dirs' = cleanup(dirs, 1)

\* process_audio_files, lines 16-21: the first verse is read before the with
\* statement (IndexError on an empty result), then AudioProcessor() is built
ProcessAudioFiles ==
  /\ s_pc = "idle"
  /\ IF verse_info.verse_info = << >>
     THEN /\ s_pc' = "exited"
          /\ s_result' = [kind |-> "IndexError", final_durations |-> << >>]
          /\ UNCHANGED << temp_dirs, s_i >>
     ELSE IF construct(default_args) # "ok"
     THEN /\ s_pc' = "exited"
          /\ s_result' = [kind |-> construct(default_args), final_durations |-> << >>]
          /\ UNCHANGED << temp_dirs, s_i >>
     ELSE /\ temp_dirs' = mkdtemp(temp_dirs)
          /\ s_pc' = "loop"
          /\ s_i' = 1
          /\ UNCHANGED s_result
  /\ UNCHANGED << verse_info, normalized_audio, durations, processed_files >>
  /\ MergeUntouched
  /\ SessionUnchanged

\* the except clause of lines 46-48 for the file the loop is at
ProcessingError(dirs) ==
  IF on_processing_error = "return"
  THEN ExitWith(dirs, "None", << >>) /\ UNCHANGED s_i
  ELSE /\ s_i' = s_i + 1
       /\ s_pc' = "loop"
       /\ temp_dirs' = dirs
       /\ UNCHANGED s_result

\* lines 27-37: normalize_audio(path) writes normalized.mp3 into the
\* directory of the session's processor (lines 110-114), or raises
NormalizeAudio ==
  /\ s_pc = "loop"
  /\ s_i <= Len(verse_info.verses_audio_paths)
  /\ \E ok \in BOOLEAN :
       IF ok
       THEN /\ temp_dirs' = export(temp_dirs, create_temp_path(1, "normalized.mp3"),
                                   [source |-> verse_info.verses_audio_paths[s_i], frames |-> 0])
            /\ normalized_audio' = [dir |-> 1, name |-> "normalized.mp3",
                                    source |-> verse_info.verses_audio_paths[s_i]]
            /\ s_pc' = "normalized"
            /\ UNCHANGED << s_i, s_result >>
       ELSE /\ ProcessingError(temp_dirs)
            /\ UNCHANGED normalized_audio
  /\ UNCHANGED << verse_info, durations, processed_files >>
  /\ MergeUntouched
  /\ SessionUnchanged

\* lines 39-45: create_with_preset("conservative") builds a second
\* processor with a directory of its own; its preprocess_audio (lines
\* 136-148) writes preprocessed.mp3 there, or raises
PreprocessAudio ==
  /\ s_pc = "normalized"
  /\ IF create_with_preset("conservative") # "ok"
     THEN /\ ProcessingError(temp_dirs)
          /\ UNCHANGED << durations, processed_files >>
     ELSE \E ok \in BOOLEAN, f \in SessionClipFrames :
            LET dirs == mkdtemp(temp_dirs)
                k == Len(dirs)
                audio == from_file(temp_dirs, create_temp_path(normalized_audio.dir,
                                                               normalized_audio.name))
            IN  IF ok
                THEN /\ temp_dirs' = export(dirs, create_temp_path(k, "preprocessed.mp3"),
                                           [source |-> audio.source, frames |-> f])
                     /\ durations' = Append(durations, [num |-> f, den |-> frame_rate])
                     /\ processed_files' = Append(processed_files,
                          [dir |-> k, name |-> "preprocessed.mp3", frames |-> f,
                           source |-> audio.source])
                     /\ s_i' = s_i + 1
                     /\ s_pc' = "loop"
                     /\ UNCHANGED s_result
                ELSE /\ ProcessingError(dirs)
                     /\ UNCHANGED << durations, processed_files >>
  /\ UNCHANGED << verse_info, normalized_audio >>
  /\ MergeUntouched
  /\ SessionUnchanged

\* line 53: merge_audio_files(processed_files, full_surah_output) is called
\* with the default crossfade
StartMerge ==
  /\ s_pc = "loop"
  /\ s_i > Len(verse_info.verses_audio_paths)
  /\ file_paths' = [kind |-> "list",
                     clips |-> [i \in 1 .. Len(processed_files) |->
                       from_file(temp_dirs, create_temp_path(processed_files[i].dir,
                                                             processed_files[i].name)).frames]]
  /\ crossfade' = default_crossfade
  /\ m_pc' = "idle"
  /\ s_pc' = "merging"
  /\ UNCHANGED << frame_rate, m_i, merged, duration_changes, total_duration_ms,
                  cumulative_crossfade, m_result, output_file >>
  /\ UNCHANGED << verse_info, s_i, normalized_audio, durations, processed_files,
                  temp_dirs, s_result >>
  /\ SessionUnchanged

\* lines 54-57: the effective durations in seconds are returned; an
\* exception of merge_audio_files leaves the function
EndSession ==
  /\ s_pc = "merging"
  /\ m_pc \in {"done", "ValueError", "TypeError"}
  /\ IF m_pc = "done"
     THEN ExitWith(temp_dirs, "ok",
            [i \in 1 .. Len(m_result.duration_changes) |->
               [num |-> m_result.duration_changes[i].effective_duration_ms, den |-> 1000]])
     ELSE ExitWith(temp_dirs, m_pc, << >>)
  /\ UNCHANGED << verse_info, s_i, normalized_audio, durations, processed_files >>
  /\ MergeUntouched
  /\ SessionUnchanged

SessionNext ==
  \/ ProcessAudioFiles
  \/ NormalizeAudio
  \/ PreprocessAudio
  \/ StartMerge
  \/ MergeAudioFiles
  \/ MergeClip
  \/ MergeExport
  \/ EndSession

SpecSession == SessionInit /\ [][SessionNext]_vars

(* --------------------------- AudioDuration ----------------------------- *)
\* A duration in seconds is the fraction num / den. A file is what the two
\* readers find in it: mutagen.File returns an object whose info has a
\* length ("length"), returns None, returns an object whose info has no
\* length ("no_length") or no info at all ("no_info"), or raises; wave.open
\* yields a header ("wav") or raises.
Fail(readers) == [outcome |-> "ValueError", num |-> 0, den |-> 1, readers |-> readers]
Seconds(num, den, readers) == [outcome |-> "ok", num |-> num, den |-> den, readers |-> readers]

\* the wave fallback of lines 50-53; a frame rate of 0 is a ZeroDivisionError
wave_duration(file, readers) ==
  IF file.wave.kind = "raises" \/ file.wave.rate = 0
  THEN Fail(readers)
  ELSE Seconds(file.wave.frames, file.wave.rate, readers)

\* get_duration trying the wave header after an error of mutagen as well
get_duration_fallback_on_error(file) ==
  IF ~file.is_file THEN Fail(<< >>)
  ELSE IF file.mutagen.kind = "length"
  THEN Seconds(file.mutagen.length, 1000, << "mutagen" >>)
  ELSE wave_duration(file, << "mutagen", "wave" >>)

\* AudioDuration.get_duration, lines 41-55
get_duration(file) ==
  IF ~file.is_file THEN Fail(<< >>)
  ELSE IF file.mutagen.kind \in {"raises", "no_info"} THEN Fail(<< "mutagen" >>)
  ELSE IF file.mutagen.kind = "length"
  THEN Seconds(file.mutagen.length, 1000, << "mutagen" >>)
  ELSE wave_duration(file, << "mutagen", "wave" >>)

AudioFileInputs ==
  [is_file : BOOLEAN,
   mutagen : [kind : {"length"}, length : {0, 1500, 2750}]
               \cup [kind : {"None", "no_length", "no_info", "raises"}, length : {0}],
   wave : [kind : {"wav"}, frames : {0, 8000, 12000}, rate : {0, 8000}]
            \cup {[kind |-> "raises", frames |-> 0, rate |-> 0]}]

GetDurationInit ==
  /\ CoordIdle /\ recitations_cache = "None"
  /\ FetchIdle /\ ValidateIdle /\ MergeIdle
  /\ ManifestIdle /\ CtorIdle /\ SessionIdle /\ Ext2Idle
  /\ dur_file \in AudioFileInputs
  /\ dur_result = NoDuration
  /\ fmt_seconds = 0
  /\ fmt_result = NoText

\* AudioDuration.get_duration(file_path)
AudioDurationGetDuration ==
  /\ dur_result = NoDuration
  /\ dur_result' = get_duration(dur_file)
  /\ UNCHANGED << dur_file, fmt_seconds, fmt_result,
                  coordVars, fetchVars, validateVars, mergeVars, manifestVars, ctorVars, sessionVars,
                  ext2Vars >>

GetDurationNext == AudioDurationGetDuration

SpecGetDuration == GetDurationInit /\ [][GetDurationNext]_vars

\* largest whole number of seconds formatted, next to a few long durations
MaxFormatSeconds == 3700

\* f"{n:02d}"
Format02d(n) == ZeroPad(Digits(n), 2)

\* format_duration rounding the seconds to the nearest whole
format_duration_rounded(t) ==
  [hh |-> Format02d(t \div 36000),
   mm |-> Format02d((t % 36000) \div 600),
   ss |-> Format02d(round_half_even(t % 600, 10))]

\* AudioDuration.format_duration, lines 60-63, for seconds = t / 10:
\* int(seconds // 3600), int((seconds % 3600) // 60), int(seconds % 60);
\* the three fields of the f-string
format_duration(t) ==
  [hh |-> Format02d(t \div 36000),
   mm |-> Format02d((t % 36000) \div 600),
   ss |-> Format02d((t % 600) \div 10)]

\* AudioInfoExtractor.format_duration, lines 81-83: divmod on int(duration)
extractor_format_duration(t) ==
  LET whole == t \div 10
      minutes == whole \div 60
  IN  [hh |-> Format02d(minutes \div 60),
       mm |-> Format02d(minutes % 60),
       ss |-> Format02d(whole % 60)]

\* durations in tenths of a second
DurationInputs ==
  { 10 * n + f : n \in (0 .. MaxFormatSeconds) \cup {86399, 359999, 360000}, f \in {0, 5, 9} }

FormatDurationInit ==
  /\ CoordIdle /\ recitations_cache = "None"
  /\ FetchIdle /\ ValidateIdle /\ MergeIdle
  /\ ManifestIdle /\ CtorIdle /\ SessionIdle /\ Ext2Idle
  /\ dur_file = NoAudio
  /\ dur_result = NoDuration
  /\ fmt_seconds \in DurationInputs
  /\ fmt_result = NoText

\* AudioDuration.format_duration(seconds)
AudioDurationFormatDuration ==
  /\ fmt_result = NoText
  /\ fmt_result' = format_duration(fmt_seconds)
  /\ UNCHANGED << dur_file, dur_result, fmt_seconds,
                  coordVars, fetchVars, validateVars, mergeVars, manifestVars, ctorVars, sessionVars,
                  ext2Vars >>

FormatDurationNext == AudioDurationFormatDuration

SpecFormatDuration == FormatDurationInit /\ [][FormatDurationNext]_vars

(* ------------- AudioProcessor.normalize_audio, concurrently ------------ *)
\* Two threads call normalize_audio on one AudioProcessor, each on an input
\* of its own. Directory 1 is the processor's temp_dir, directory 2 is where
\* a caller that passes output_path wants its file.
InputFrames(ayah) == 2000 * ayah

NormalizeCallInputs ==
  { [at |-> "call", input_path |-> audio_filepath(reciter_configs[6], 108, a),
     output_path |-> o, resolved |-> NoTarget, frames |-> InputFrames(a),
     returned |-> NoTarget] :
    a \in AyahInputs,
    o \in {NoTarget} \cup { [dir |-> 2, name |-> n] : n \in {"a.mp3", "b.mp3"} } }

OthersIdle ==
  /\ CoordIdle /\ recitations_cache = "None"
  /\ FetchIdle /\ ValidateIdle /\ MergeIdle
  /\ ManifestIdle /\ CtorIdle /\ SessionIdle /\ DurationIdle

NormalizeInit ==
  /\ OthersIdle /\ PoolIdle /\ OverlapIdle /\ QueueIdle
  /\ normalize_dirs = mkdtemp(mkdtemp(<< >>))
  /\ normalize_calls \in
       { f \in [Callers -> NormalizeCallInputs] :
           \A c1, c2 \in Callers :
             c1 # c2 => /\ f[c1].input_path # f[c2].input_path
                        /\ \/ f[c1].output_path = NoTarget
                           \/ f[c1].output_path # f[c2].output_path }

NormalizeUnchanged ==
  UNCHANGED << coordVars, fetchVars, validateVars, mergeVars, manifestVars, ctorVars,
               sessionVars, durationVars, poolVars, overlapVars, queueVars >>

\* normalize_audio, lines 110-112: the output path is the argument or
\* normalized.mp3 in the processor's directory; the input is read and the
\* gain applied in memory
NormalizeAudioRead(c) ==
  /\ normalize_calls[c].at = "call"
  /\ normalize_calls' = [normalize_calls EXCEPT
       ![c].at = "export",
       ![c].resolved = IF normalize_calls[c].output_path = NoTarget
                       THEN create_temp_path(1, "normalized.mp3")
                       ELSE normalize_calls[c].output_path]
  /\ UNCHANGED normalize_dirs
  /\ NormalizeUnchanged

\* normalize_audio, line 113: export to the output path
NormalizeAudioExport(c) ==
  /\ normalize_calls[c].at = "export"
  /\ normalize_dirs' = export(normalize_dirs, normalize_calls[c].resolved,
                              [source |-> normalize_calls[c].input_path,
                               frames |-> normalize_calls[c].frames])
  /\ normalize_calls' = [normalize_calls EXCEPT ![c].at = "return"]
  /\ NormalizeUnchanged

\* normalize_audio, line 114: the path is returned
NormalizeAudioReturn(c) ==
  /\ normalize_calls[c].at = "return"
  /\ normalize_calls' = [normalize_calls EXCEPT
       ![c].at = "done", ![c].returned = normalize_calls[c].resolved]
  /\ UNCHANGED normalize_dirs
  /\ NormalizeUnchanged

NormalizeNext ==
  \/ \E c \in Callers : NormalizeAudioRead(c)
  \/ \E c \in Callers : NormalizeAudioExport(c)
  \/ \E c \in Callers : NormalizeAudioReturn(c)

SpecNormalize == NormalizeInit /\ [][NormalizeNext]_vars

(* ------------- get_verses_info batches on one audio directory ---------- *)
\* Several get_verses_info calls with the same arguments, each on a
\* QuranDataManager of its own (get_verse_info.py builds one per request),
\* work on one audio directory. A batch may start while another runs or
\* after it has returned.
OverlapRequests ==
  { [reciter_id |-> r, surah_number |-> 108, start_ayah |-> rng[1], end_ayah |-> rng[2]] :
    r \in ReciterInputs, rng \in {<< 1, 2 >>, << 3, 3 >>, << 3, 4 >>, << 2, 1 >>} }

BatchPath(a) == audio_filepath(reciter_configs[batch_req.reciter_id], batch_req.surah_number, a)

\* file_path.write_bytes done before response.raise_for_status()
response_saved_before_status(d, path, outcome, content) ==
  IF outcome \in {"response", "HTTPError"} THEN write_bytes(d, path, content) ELSE d

\* download_ayah, lines 217-221: the body is written when session.get
\* returned and raise_for_status() did not raise
response_saved(d, path, outcome, content) ==
  IF outcome = "response" THEN write_bytes(d, path, content) ELSE d

\* download_ayah, lines 204-218: how the call ends for what the server answers
download_outcome(reciter_id, surah_num, ayah_num, script) ==
  IF validate_surah_ayah(surah_num, ayah_num) # "ok" THEN "ValueError"
  ELSE IF get_reciter_config(reciter_id) # "ok" THEN "ValueError"
  ELSE session_get(script).outcome

OverlapInit ==
  /\ OthersIdle /\ PoolIdle /\ NormalizeIdle /\ QueueIdle
  /\ batch_req \in OverlapRequests
  /\ batches = [b \in Batches |-> NoBatch]
  /\ batch_tasks = [b \in Batches |-> [a \in Tasks |-> NoTask]]
  /\ \E present \in SUBSET { audio_filepath(reciter_configs[6], 108, a) :
                                a \in batch_req.start_ayah .. batch_req.end_ayah } :
       audio_dir = [q \in Paths |-> IF q \in present THEN CachedFile(q) ELSE NoFile]

OverlapUnchanged ==
  UNCHANGED << coordVars, fetchVars, validateVars, mergeVars, manifestVars, ctorVars,
               sessionVars, durationVars, poolVars, normalizeVars, queueVars >>

\* get_verses_info, lines 70-75, and _process_verses_concurrently, lines
\* 137-141: the range check, the reciter lookup (which loads the manifest),
\* then one task per ayah of the range
BatchGetVersesInfo(b) ==
  /\ batches[b].at = "idle"
  /\ \E manifest_loaded \in BOOLEAN :
       LET finished == { o \in Batches : batches[o].at \in {"returned", "raised"} }
           futures == submitted_ayahs(batch_req.start_ayah, batch_req.end_ayah)
       IN  IF \/ validate_verse_range(batch_req.surah_number, batch_req.start_ayah,
                                      batch_req.end_ayah) # "ok"
              \/ ~manifest_loaded
              \/ get_reciter_config(batch_req.reciter_id) # "ok"
           THEN /\ batches' = [batches EXCEPT ![b] = [at |-> "raised", after |-> finished]]
                /\ UNCHANGED batch_tasks
           ELSE /\ batches' = [batches EXCEPT ![b] = [at |-> "running", after |-> finished]]
                /\ batch_tasks' = [batch_tasks EXCEPT ![b] =
                     [a \in Tasks |->
                        IF \E i \in DOMAIN futures : futures[i] = a
                        THEN [NoTask EXCEPT !.at = "start"] ELSE NoTask]]
  /\ UNCHANGED << batch_req, audio_dir >>
  /\ OverlapUnchanged

\* _process_single_verse, lines 105-126, up to the call of download_ayah:
\* the verse text, the existence check of the path, and for a file that is
\* there its duration; the task is done unless the file is missing
BatchProcessSingleVerse(b, a) ==
  /\ batch_tasks[b][a].at = "start"
  /\ \E has_text \in BOOLEAN :
       batch_tasks' = [batch_tasks EXCEPT ![b][a] =
         IF ~has_text
         THEN [@ EXCEPT !.at = "done"]
         ELSE IF exists(audio_dir, BatchPath(a))
         THEN [@ EXCEPT !.at = "done", !.existed = "yes"]
         ELSE [@ EXCEPT !.at = "download", !.existed = "no"]]
  /\ UNCHANGED << batch_req, batches, audio_dir >>
  /\ OverlapUnchanged

\* download_ayah, lines 204-221, and _process_single_verse, lines 116-126:
\* the checks, the request behind the rate limit, the write of the body, and
\* the duration of the file; every exception makes the task return None.
\* wrote tells whether the call changed the directory.
BatchDownloadAyah(b, a) ==
  /\ batch_tasks[b][a].at = "download"
  /\ \E script \in ServerScripts :
       LET outcome == download_outcome(batch_req.reciter_id, batch_req.surah_number, a, script)
           content == [src |-> "http", surah |-> batch_req.surah_number, ayah |-> a, by |-> b]
           saved == response_saved(audio_dir, BatchPath(a), outcome, content)
       IN  /\ audio_dir' = saved
           /\ batch_tasks' = [batch_tasks EXCEPT ![b][a] =
                [@ EXCEPT !.at = "done", !.fetched = outcome, !.wrote = saved # audio_dir]]
  /\ UNCHANGED << batch_req, batches >>
  /\ OverlapUnchanged

\* _process_verses_concurrently, lines 143-152, and get_verses_info, lines
\* 77-87: every future is done, the call returns
BatchReturn(b) ==
  /\ batches[b].at = "running"
  /\ \A a \in Tasks : batch_tasks[b][a].at \in {"unsched", "done"}
  /\ batches' = [batches EXCEPT ![b].at = "returned"]
  /\ UNCHANGED << batch_req, batch_tasks, audio_dir >>
  /\ OverlapUnchanged

OverlapNext ==
  \/ \E b \in Batches : BatchGetVersesInfo(b)
  \/ \E b \in Batches, a \in Tasks : BatchProcessSingleVerse(b, a)
  \/ \E b \in Batches, a \in Tasks : BatchDownloadAyah(b, a)
  \/ \E b \in Batches : BatchReturn(b)

SpecOverlap == OverlapInit /\ [][OverlapNext]_vars

(* ------------- QuranicVerseProcessor and the processing loop ----------- *)
\* "_" in the key string, next to the decimal digits
Underscore == -1

\* what the input tab may submit: three ranges whose key strings hold the
\* same digits, each under two file names
VerseRangeInputs ==
  { [reciter_id |-> k[1], reciter_name |-> "reciter", surah_number |-> k[2],
     start_verse |-> 1, end_verse |-> 1, output_filename |-> n] :
    k \in {<< 1, 12 >>, << 11, 2 >>, << 1, 2 >>}, n \in {"a", "b"} }

\* generate_unique_id, line 44:
\* f"{reciter_id}_{surah_number}_{start_verse}_{end_verse}"
key_string(vr) ==
  Digits(vr.reciter_id) \o << Underscore >> \o Digits(vr.surah_number) \o << Underscore >>
    \o Digits(vr.start_verse) \o << Underscore >> \o Digits(vr.end_verse)

\* generate_unique_id, line 45: the SHA-256 digest of the key string; two
\* digests are equal when the key strings are
generate_unique_id(vr) == [sha256 |-> key_string(vr)]

IdInputs == { generate_unique_id(vr) : vr \in VerseRangeInputs }

\* an add_verse_range that puts a known id back into processing_queue
add_verse_range_requeue(vq, pq, vr) ==
  LET unique_id == generate_unique_id(vr)
  IN  IF unique_id \notin DOMAIN vq
      THEN [verse_queue |-> [i \in DOMAIN vq \cup {unique_id} |->
                               IF i = unique_id THEN vr ELSE vq[i]],
            processing_queue |-> pq \cup {unique_id},
            returned |-> TRUE]
      ELSE [verse_queue |-> vq, processing_queue |-> pq \cup {unique_id}, returned |-> FALSE]

\* add_verse_range, lines 76-81
add_verse_range(vq, pq, vr) ==
  LET unique_id == generate_unique_id(vr)
  IN  IF unique_id \notin DOMAIN vq
      THEN [verse_queue |-> [i \in DOMAIN vq \cup {unique_id} |->
                               IF i = unique_id THEN vr ELSE vq[i]],
            processing_queue |-> pq \cup {unique_id},
            returned |-> TRUE]
      ELSE [verse_queue |-> vq, processing_queue |-> pq, returned |-> FALSE]

\* get_pending_verses, line 86: the keys of the returned dictionary
get_pending_verses(vq, pq) == { key \in DOMAIN vq : key \in pq }

\* mark_completed, lines 91-92
mark_completed(pq, unique_id) == IF unique_id \in pq THEN pq \ {unique_id} ELSE pq

\* get_queue_statistics, lines 97-101
get_queue_statistics(vq, pq) ==
  [total_verses |-> Cardinality(DOMAIN vq),
   pending_verses |-> Cardinality(pq),
   completed_verses |-> Cardinality(DOMAIN vq) - Cardinality(pq)]

\* the loop body marking the range whenever generate_video returned
loop_body_marks_on_return(fetch, audio, video) ==
  IF fetch # "ok" THEN [raised |-> TRUE, marks |-> FALSE]
  ELSE IF audio # "ok" THEN [raised |-> TRUE, marks |-> FALSE]
  ELSE [raised |-> FALSE, marks |-> TRUE]

\* app.py lines 142-162, one pass of the loop. get_verse_info returns the
\* result, returns empty lists or raises; on empty lists process_audio_files
\* raises IndexError (process_audio.py line 16); process_audio_files returns
\* its pair, returns None (line 48), on which the unpacking of line 145
\* raises TypeError, or raises; generate_video returns True or False. What
\* is raised is caught by line 161.
loop_body(fetch, audio, video) ==
  IF fetch # "ok" THEN [raised |-> TRUE, marks |-> FALSE]
  ELSE IF audio # "ok" THEN [raised |-> TRUE, marks |-> FALSE]
  ELSE [raised |-> FALSE, marks |-> video = "True"]

\* what one pass may meet
PassInputs ==
  { [fetch |-> "raises", audio |-> "not_called", video |-> "not_called"],
    [fetch |-> "empty", audio |-> "raises", video |-> "not_called"],
    [fetch |-> "ok", audio |-> "raises", video |-> "not_called"],
    [fetch |-> "ok", audio |-> "None", video |-> "not_called"],
    [fetch |-> "ok", audio |-> "ok", video |-> "False"],
    [fetch |-> "ok", audio |-> "ok", video |-> "True"] }

QueueInit == OthersIdle /\ Ext2Idle

QueueUnchanged ==
  UNCHANGED << coordVars, fetchVars, validateVars, mergeVars, manifestVars, ctorVars,
               sessionVars, durationVars, poolVars, normalizeVars, overlapVars >>

\* input_tab.py line 187: add_verse_range(verse_range), in a script run of
\* its own
AddVerseRange(vr) ==
  /\ run.at # "running"
  /\ LET added == add_verse_range(verse_queue, processing_queue, vr)
     IN  /\ verse_queue' = added.verse_queue
         /\ processing_queue' = added.processing_queue
         /\ last_add' = [called |-> TRUE, id |-> generate_unique_id(vr),
                         output_filename |-> vr.output_filename,
                         was_queued |-> generate_unique_id(vr) \in DOMAIN verse_queue,
                         returned |-> added.returned,
                         changed |-> \/ added.verse_queue # verse_queue
                                     \/ added.processing_queue # processing_queue]
  /\ run' = NoRun
  /\ QueueUnchanged

\* clear_all_queues, lines 65-66
ClearAllQueues ==
  /\ run.at # "running"
  /\ verse_queue' = << >>
  /\ processing_queue' = {}
  /\ run' = NoRun
  /\ UNCHANGED last_add
  /\ QueueUnchanged

\* clear_processing_queue, line 71
ClearProcessingQueue ==
  /\ run.at # "running"
  /\ processing_queue' = {}
  /\ run' = NoRun
  /\ UNCHANGED << verse_queue, last_add >>
  /\ QueueUnchanged

\* mark_completed(unique_id) called with any id
MarkCompleted(unique_id) ==
  /\ run.at # "running"
  /\ processing_queue' = mark_completed(processing_queue, unique_id)
  /\ run' = NoRun
  /\ UNCHANGED << verse_queue, last_add >>
  /\ QueueUnchanged

QueueNext ==
  \/ \E vr \in VerseRangeInputs : AddVerseRange(vr)
  \/ ClearAllQueues
  \/ ClearProcessingQueue
  \/ \E unique_id \in IdInputs : MarkCompleted(unique_id)

SpecQueue == QueueInit /\ [][QueueNext]_vars

\* app.py lines 134-139 and 165-166: the button takes the pending ranges;
\* with none pending there is no loop
StartProcessing ==
  /\ run.at # "running"
  /\ LET pending_verses == get_pending_verses(verse_queue, processing_queue)
     IN  run' = [at |-> IF pending_verses # {} THEN "running" ELSE "finished",
                 pending_verses |-> pending_verses,
                 outcome |-> << >>]
  /\ UNCHANGED << verse_queue, processing_queue, last_add >>
  /\ QueueUnchanged

\* app.py lines 141-162: the pass of the loop for one pending range. The
\* dictionary is gone through in insertion order; here in any order.
ProcessVerseRange(verse_id) ==
  /\ run.at = "running"
  /\ verse_id \in run.pending_verses \ DOMAIN run.outcome
  /\ \E pass \in PassInputs :
       /\ processing_queue' =
            IF loop_body(pass.fetch, pass.audio, pass.video).marks
            THEN mark_completed(processing_queue, verse_id)
            ELSE processing_queue
       /\ run' = [run EXCEPT !.outcome =
                    [i \in DOMAIN run.outcome \cup {verse_id} |->
                       IF i = verse_id THEN pass ELSE run.outcome[i]]]
  /\ UNCHANGED << verse_queue, last_add >>
  /\ QueueUnchanged

\* app.py line 164: the loop is through
FinishProcessing ==
  /\ run.at = "running"
  /\ run.pending_verses = DOMAIN run.outcome
  /\ run' = [run EXCEPT !.at = "finished"]
  /\ UNCHANGED << verse_queue, processing_queue, last_add >>
  /\ QueueUnchanged

AppNext ==
  \/ \E vr \in VerseRangeInputs : AddVerseRange(vr)
  \/ ClearAllQueues
  \/ ClearProcessingQueue
  \/ StartProcessing
  \/ \E verse_id \in IdInputs : ProcessVerseRange(verse_id)
  \/ FinishProcessing

SpecApp == QueueInit /\ [][AppNext]_vars

(* ================== properties of the manifest cache ================== *)
\* C13: over every sequence and interleaving of get_reciter_config,
\* list_available_reciters, _validate_surah_ayah and download_ayah calls, at
\* most one GET of the manifest URL is issued.
C13_ManifestFetchedOnce ==
  Cardinality(DispatchesFor(RECITATIONS_URL)) <= 1

\* C15: zero clips (an empty list or an exhausted iterator) end the call with
\* ValueError, and an argument that is neither a list nor an iterator with
\* TypeError; in both cases no clip has been read and no output written.
C15_InputErrors ==
  LET empty == file_paths.kind \in {"list", "iterator"} /\ file_paths.clips = << >>
      malformed == file_paths.kind \notin {"list", "iterator"}
  IN  /\ empty => m_pc \in {"idle", "ValueError"}
      /\ malformed => m_pc \in {"idle", "TypeError"}
      /\ (empty \/ malformed) =>
           /\ m_i = 0 /\ merged = 0 /\ duration_changes = << >>
           /\ ~output_file.written

C15_Witness ==
  /\ file_paths.kind = "iterator" /\ file_paths.clips = << >>
  /\ m_pc = "ValueError"
  /\ ~output_file.written

(* ================ properties of AudioProcessor.__init__ =============== *)
\* C16: the construction succeeds exactly when silence_thresh is in
\* [-100, 0], min_silence_duration > 0, padding_len * 2 < min_silence_duration
\* and fade_len < min_silence_duration / 4, and fails with
\* AudioProcessorError otherwise (padding 200 or fade 100 with a minimum of
\* 300 both fail).
C16_ConstructIff ==
  ctor_result # "none" =>
    LET a == ctor_args
        valid == /\ -100 <= a.silence_thresh /\ a.silence_thresh <= 0
                 /\ a.min_silence_duration > 0
                 /\ a.padding_len * 2 < a.min_silence_duration
                 /\ 4 * a.fade_len < a.min_silence_duration
    IN  /\ valid => ctor_result = "ok" /\ Len(temp_dirs) = 1
        /\ ~valid => ctor_result = "AudioProcessorError" /\ temp_dirs = << >>
        /\ (a.padding_len = 200 /\ a.min_silence_duration = 300) => ctor_result = "AudioProcessorError"
        /\ (a.fade_len = 100 /\ a.min_silence_duration = 300) => ctor_result = "AudioProcessorError"

C16_Witness ==
  /\ ctor_args = [silence_thresh |-> -50, min_silence_duration |-> 300, fade_len |-> 15, padding_len |-> 200]
  /\ ctor_result = "AudioProcessorError"

(* ================= properties of process_audio_files ================== *)
\* C17: when the session has ended, by return or by exception, every
\* temporary directory made during it has been removed with its contents.
C17_TempDirsRemoved ==
  s_pc = "exited" =>
    \A k \in 1 .. Len(temp_dirs) : temp_dirs[k].removed /\ temp_dirs[k].files = {}

\* C18: a successful session returns one effective duration per verse of
\* the coordinator's result, the i-th being that of the clip processed from
\* the i-th verse's audio: no list is shorter or longer, and no clip that
\* failed is replaced by a stand-in.
C18_DurationPerVerse ==
  (s_pc = "exited" /\ s_result.kind = "ok") =>
    /\ Len(s_result.final_durations) = Len(verse_info.verse_info)
    /\ Len(processed_files) = Len(verse_info.verse_info)
    /\ \A i \in 1 .. Len(s_result.final_durations) :
         LET clip_len == segment_len(processed_files[i].frames, frame_rate)
         IN  /\ processed_files[i].source = verse_info.verses_audio_paths[i]
             /\ s_result.final_durations[i].den = 1000
             /\ s_result.final_durations[i].num =
                  IF i = 1 THEN clip_len ELSE clip_len - default_crossfade

C18_Witness ==
  /\ s_pc = "exited" /\ s_result.kind = "ok"
  /\ Len(verse_info.verse_info) = 3
  /\ Len(s_result.final_durations) = 3
  /\ s_result.final_durations[2].num = 500

ProcessedPath(i) == create_temp_path(processed_files[i].dir, processed_files[i].name)

\* C28: the processed clip paths collected by process_audio_files are
\* pairwise distinct, the file at the i-th path holds, up to the merge, the
\* audio processed from the i-th verse, the normalized file is read by the
\* preprocessing of its own verse, and the merge reads the clips in verse
\* order.
C28_ClipsDistinctAndAligned ==
  /\ s_pc \in {"loop", "normalized", "merging"} =>
       /\ \A i, j \in 1 .. Len(processed_files) :
            i # j => ProcessedPath(i) # ProcessedPath(j)
       /\ \A i \in 1 .. Len(processed_files) :
            /\ \E f \in temp_dirs[processed_files[i].dir].files : f.name = processed_files[i].name
            /\ from_file(temp_dirs, ProcessedPath(i)).source = verse_info.verses_audio_paths[i]
            /\ from_file(temp_dirs, ProcessedPath(i)).frames = durations[i].num
  /\ s_pc = "normalized" =>
       from_file(temp_dirs, create_temp_path(normalized_audio.dir, normalized_audio.name)).source
         = verse_info.verses_audio_paths[s_i]
  /\ s_pc = "merging" =>
       /\ Len(file_paths.clips) = Len(verse_info.verses_audio_paths)
       /\ \A i \in 1 .. Len(file_paths.clips) : file_paths.clips[i] = durations[i].num

C28_Witness ==
  /\ s_pc = "merging" /\ m_pc = "done"
  /\ Len(processed_files) = 3
  /\ processed_files[1].dir = 2 /\ processed_files[2].dir = 3 /\ processed_files[3].dir = 4
  /\ file_paths.clips = << 8000, 4000, 8000 >>
  /\ \A k \in 2 .. 4 : ~temp_dirs[k].removed

(* ===================== properties of AudioDuration ==================== *)
\* C19: format_duration truncates: with n the whole seconds of the duration
\* it returns n div 3600, (n mod 3600) div 60 and n mod 60, each padded to
\* two digits; 3661 gives 01:01:01 and 59.9 gives 00:00:59. The formatter of
\* AudioInfoExtractor returns the same text.
C19_FormatTruncates ==
  fmt_result # NoText =>
    LET n == fmt_seconds \div 10
    IN  /\ fmt_result.hh = ZeroPad(Digits(n \div 3600), 2)
        /\ fmt_result.mm = ZeroPad(Digits((n % 3600) \div 60), 2)
        /\ fmt_result.ss = ZeroPad(Digits(n % 60), 2)
        /\ fmt_seconds = 36610 => fmt_result = [hh |-> << 0, 1 >>, mm |-> << 0, 1 >>, ss |-> << 0, 1 >>]
        /\ fmt_seconds = 599 => fmt_result = [hh |-> << 0, 0 >>, mm |-> << 0, 0 >>, ss |-> << 5, 9 >>]
        /\ extractor_format_duration(fmt_seconds) = fmt_result

C19_Witness ==
  /\ fmt_seconds = 599
  /\ fmt_result = [hh |-> << 0, 0 >>, mm |-> << 0, 0 >>, ss |-> << 5, 9 >>]

\* C20: get_duration fails with ValueError for a path that is not a file;
\* otherwise it returns mutagen's length when there is one, reads the wave
\* header (frames / rate) only when mutagen gave no length, tries no third
\* reader, and fails with the same ValueError in every other case.
C20_GetDurationFallback ==
  dur_result # NoDuration =>
    LET f == dur_file
        r == dur_result
        no_length == f.mutagen.kind \in {"None", "no_length"}
        wave_ok == f.wave.kind = "wav" /\ f.wave.rate > 0
    IN  /\ r.outcome \in {"ok", "ValueError"}
        /\ ~f.is_file => r.outcome = "ValueError" /\ r.readers = << >>
        /\ (f.is_file /\ f.mutagen.kind = "length") =>
             /\ r.outcome = "ok" /\ r.num = f.mutagen.length /\ r.den = 1000
             /\ r.readers = << "mutagen" >>
        /\ (\E i \in 1 .. Len(r.readers) : r.readers[i] = "wave") => f.is_file /\ no_length
        /\ (f.is_file /\ no_length /\ wave_ok) =>
             /\ r.outcome = "ok" /\ r.num = f.wave.frames /\ r.den = f.wave.rate
             /\ r.readers = << "mutagen", "wave" >>
        /\ (f.is_file /\ f.mutagen.kind # "length" /\ ~(no_length /\ wave_ok)) => r.outcome = "ValueError"
        /\ Len(r.readers) <= 2
        /\ \A i \in 1 .. Len(r.readers) : r.readers[i] = << "mutagen", "wave" >>[i]

C20_Witness ==
  /\ dur_file.is_file /\ dur_file.mutagen.kind = "None"
  /\ dur_file.wave = [kind |-> "wav", frames |-> 12000, rate |-> 8000]
  /\ dur_result = Seconds(12000, 8000, << "mutagen", "wave" >>)

(* ============== properties of concurrent normalize_audio ============== *)
\* C21: when two concurrent normalize_audio calls on different inputs have
\* both returned, the file at the path each call returned holds the
\* normalization of that call's own input: neither overwrote the other's.
C21_NormalizeCallsIndependent ==
  (\A c \in Callers : normalize_calls[c].at = "done") =>
    \A c \in Callers :
      /\ \E f \in normalize_dirs[normalize_calls[c].returned.dir].files :
           f.name = normalize_calls[c].returned.name
      /\ from_file(normalize_dirs, normalize_calls[c].returned).source
           = normalize_calls[c].input_path

(* ========== properties of batches sharing an audio directory ========== *)
BatchAyahs == batch_req.start_ayah .. batch_req.end_ayah

\* C24: nothing stands between the existence check of a task and its
\* download: every task that found its path missing and got the audio writes
\* the file, whether or not a task of another batch has written the same
\* path meanwhile, and the file then holds what one of these tasks wrote.
\* So two overlapping batches can both pass the check and both write one
\* path.
C24_CheckThenDownloadNotAtomic ==
  \A b \in Batches, a \in Tasks :
    /\ batch_tasks[b][a].fetched # "none" => batch_tasks[b][a].existed = "no"
    /\ batch_tasks[b][a].wrote <=> batch_tasks[b][a].fetched = "response"
    /\ batch_tasks[b][a].wrote =>
         /\ audio_dir[BatchPath(a)].src = "http"
         /\ batch_tasks[audio_dir[BatchPath(a)].by][a].wrote

C24_Witness ==
  /\ batches[1].at = "running" /\ batches[2].at = "running"
  /\ batch_tasks[1][1].existed = "no" /\ batch_tasks[2][1].existed = "no"
  /\ batch_tasks[1][1].wrote /\ batch_tasks[2][1].wrote
  /\ audio_dir[BatchPath(1)].by = 2

\* C25: a download_ayah call that fails writes nothing: a file at an ayah's
\* path was there from the start or was written by a task whose download
\* got the audio. A task of a later batch therefore finds the path of a
\* failed ayah missing and calls download_ayah again.
C25_FailedDownloadLeavesNoFile ==
  /\ \A b \in Batches, a \in Tasks :
       batch_tasks[b][a].fetched \in {"ValueError", "HTTPError", "RetryError"} =>
         ~batch_tasks[b][a].wrote
  /\ (\E b \in Batches : batches[b].at \in {"running", "returned"}) =>
       \A a \in BatchAyahs :
         exists(audio_dir, BatchPath(a)) =>
           \/ audio_dir[BatchPath(a)].src = "cache"
           \/ /\ audio_dir[BatchPath(a)].src = "http"
              /\ batch_tasks[audio_dir[BatchPath(a)].by][a].fetched = "response"
  /\ \A b \in Batches, a \in Tasks :
       /\ batch_tasks[b][a].existed = "yes" =>
            \/ audio_dir[BatchPath(a)].src = "cache"
            \/ \E o \in Batches : batch_tasks[o][a].fetched = "response"
       /\ (batch_tasks[b][a].at = "done" /\ batch_tasks[b][a].existed = "no") =>
            batch_tasks[b][a].fetched # "none"

C25_Witness ==
  /\ batches[1].at = "returned"
  /\ 1 \in batches[2].after
  /\ batch_tasks[1][3].fetched = "HTTPError"
  /\ batch_tasks[1][4].fetched = "ValueError"
  /\ batch_tasks[2][3].existed = "no" /\ batch_tasks[2][3].wrote
  /\ batch_tasks[2][4].existed = "no" /\ batch_tasks[2][4].fetched = "ValueError"
  /\ audio_dir[BatchPath(3)].by = 2
  /\ ~exists(audio_dir, BatchPath(4))

(* ================= properties of the processing queues ================ *)
\* C29: after any sequence of add_verse_range, mark_completed,
\* clear_processing_queue and clear_all_queues every id of processing_queue
\* is a key of verse_queue, so the completed count is never negative; and
\* an add_verse_range whose id is already a key of verse_queue returns
\* False and changes neither queue, while any other add returns True.
C29_QueuesConsistent ==
  /\ processing_queue \subseteq DOMAIN verse_queue
  /\ get_queue_statistics(verse_queue, processing_queue).completed_verses >= 0
  /\ (last_add.called /\ last_add.was_queued) =>
       ~last_add.returned /\ ~last_add.changed
  /\ (last_add.called /\ ~last_add.was_queued) => last_add.returned

C29_Witness ==
  /\ last_add.called /\ last_add.was_queued /\ ~last_add.returned
  /\ last_add.id \in DOMAIN verse_queue
  /\ last_add.id \notin processing_queue
  /\ verse_queue[last_add.id].output_filename # last_add.output_filename
  /\ get_queue_statistics(verse_queue, processing_queue).completed_verses = 2
  /\ get_queue_statistics(verse_queue, processing_queue).pending_verses = 1

\* C30: in the processing loop a range leaves the pending set only when
\* its pass got the verses, the audio and True from generate_video; a range
\* whose pass failed or raised is still pending, and the loop goes through
\* every range it took at the start whatever the earlier passes met.
C30_CompletedOnlyOnSuccess ==
  run.at \in {"running", "finished"} =>
    /\ \A verse_id \in run.pending_verses :
         /\ verse_id \notin processing_queue =>
              /\ verse_id \in DOMAIN run.outcome
              /\ run.outcome[verse_id] = [fetch |-> "ok", audio |-> "ok", video |-> "True"]
         /\ (verse_id \in DOMAIN run.outcome /\ run.outcome[verse_id].video # "True") =>
              verse_id \in processing_queue
    /\ run.at = "finished" => DOMAIN run.outcome = run.pending_verses
    /\ (run.at = "running" /\ DOMAIN run.outcome # run.pending_verses) =>
         \E verse_id \in IdInputs : ENABLED ProcessVerseRange(verse_id)

C30_Witness ==
  /\ run.at = "finished"
  /\ Cardinality(run.pending_verses) = 3
  /\ \E x, y, z \in run.pending_verses :
       /\ run.outcome[x].fetch = "raises" /\ x \in processing_queue
       /\ run.outcome[y].video = "False" /\ y \in processing_queue
       /\ run.outcome[z].video = "True" /\ z \notin processing_queue

=============================================================================
